---- MODULE Spec2Model ----
(***************************************************************************)
(* A model of clox: the heap, the string interner and the mark-sweep       *)
(* collector (memory.c, object.c, table.c), the virtual machine (the vm    *)
(* part of debug.c) and the compiler (unnamed/part_003).                   *)
(*                                                                         *)
(* SpecGC  the allocator, the interner and the collector under a mutator   *)
(*         that runs init_vm, then compiles, then executes instructions.   *)
(***************************************************************************)
EXTENDS Integers, Sequences, FiniteSets, TLC

\* ------------------------------------------------------------------ bounds
MaxObjs == 8
MaxStack == 3
MaxConcat == 2
MaxCompilers == 2
MaxConstants == 2
MaxCollections == 1
MaxUpvalues == 1

\* ------------------------------------------------------- program constants
NULL == 0
TABLE_MIN_CAP == 8

\* ------------------------------------------------------------------ state
VARIABLES
    heap,             \* memory: object id -> the object stored there (stale once freed)
    vm_objects,       \* vm.objects, the intrusive list of all objects, head first
    vm_stack,         \* vm.stack[0 .. stack_top)
    vm_frames,        \* vm.frames[0 .. frame_count)
    vm_open_upvalues, \* vm.open_upvalues, head first
    vm_globals,       \* vm.globals
    vm_strings,       \* vm.strings, the interner
    vm_init_string,   \* vm.init_string
    vm_gray_stack,    \* vm.gray_stack[0 .. gray_count)
    current,          \* the compiler chain: function of each active Compiler, innermost last
    gc_pc,            \* position inside collect_garbage, "off" outside
    ops,              \* the mutator's pending steps, next first
    reg,              \* the object pointer the running C function holds in a local
    stress,           \* whether the build defines DEBUG_STRESS_GC
    phase,            \* "boot" (init_vm), "compile", "run", "done"
    collections,      \* the number of collections the next_gc threshold has started
    ub,               \* the program has read freed memory: its behaviour is undefined from here
    source,           \* the program text handed to interpret, as the scanner's tokens
    junk,             \* what the memory of each new ObjFunction and Compiler held before
    compiled,         \* what compile has produced: the functions, the errors, the uses of names
    vm,               \* the VM while it executes bytecode: stack, frames, upvalues, globals
    stdout,           \* the values printed so far
    scanner,          \* the Scanner over the characters of a text: source, start, cur, line
    tokens,           \* the tokens scan_token has returned for that text, in order
    equal,            \* two values, and what values_equal has returned for them
    table,            \* a Table as table.c lays it out: len, cap and the entries array
    shadow,           \* the map from keys to values that the calls on table have described
    ret               \* what the latest call on table returned: its result and *value

gcvars == <<heap, vm_objects, vm_stack, vm_frames, vm_open_upvalues, vm_globals,
            vm_strings, vm_init_string, vm_gray_stack, current, gc_pc, ops, reg,
            stress, phase, collections, ub>>

vmvars == <<source, junk, compiled, vm, stdout>>

\* the variables of the scanner, of values_equal and of the table on their own
unitvars == <<scanner, tokens, equal, table, shadow, ret>>

vars == <<gcvars, vmvars, unitvars>>

\* the scanner, values_equal and the table when a specification does not exercise them
NoScanner == scanner = NULL /\ tokens = <<>>
NoEqual == equal = NULL
NoTable == table = NULL /\ shadow = NULL /\ ret = NULL

ObjIds == 1..MaxObjs

\* ------------------------------------------------------------------ values
NIL_VAL == [t |-> "nil"]
OBJ_VAL(o) == [t |-> "obj", o |-> o]
IS_OBJ(v) == v.t = "obj"
AS_OBJ(v) == v.o

\* the elements of a finite set of integers, in increasing order
RECURSIVE SetToSeq(_)
SetToSeq(S) ==
    IF S = {} THEN <<>>
    ELSE LET m == CHOOSE x \in S : \A y \in S : x <= y
         IN <<m>> \o SetToSeq(S \ {m})

Range(s) == {s[i] : i \in 1..Len(s)}

\* ------------------------------------------------------------------ tables
\* A Table is modelled by its live entries (map), the count `len` the code keeps
\* (live keys plus tombstones since the last growth) and its capacity.
EmptyTable == [map |-> [k \in {} |-> NIL_VAL], len |-> 0, cap |-> 0]

GROW_CAPACITY(capacity) == IF capacity < TABLE_MIN_CAP THEN TABLE_MIN_CAP ELSE capacity * 2

Keys(t) == DOMAIN t.map

\* the test of a table_set that lets every entry be used
table_needs_growth_full(t) == t.len + 1 > t.cap

\* table_set's test `table->len + 1 > table->cap * TABLE_MAX_LOAD`
table_needs_growth(t) == 4 * (t.len + 1) > 3 * t.cap

\* adjust_capacity, after its allocation: the entries are rebuilt without tombstones
adjust_capacity(t, capacity) == [t EXCEPT !.len = Cardinality(Keys(t)), !.cap = capacity]

\* the store of table_set; `reuse` says whether find_entry returned a tombstone
table_store(t, key, value, reuse) ==
    LET is_new_key == key \notin Keys(t)
    IN [t EXCEPT !.map = [k \in Keys(t) \cup {key} |-> IF k = key THEN value ELSE t.map[k]],
                 !.len = IF is_new_key /\ ~reuse THEN t.len + 1 ELSE t.len]

\* table_delete that leaves the entry in place
table_delete_keep(t, key) == t

\* table_delete: the entry becomes a tombstone, len is kept
table_delete(t, key) ==
    IF t.len = 0 \/ key \notin Keys(t) THEN t
    ELSE [t EXCEPT !.map = [k \in Keys(t) \ {key} |-> t.map[k]]]

\* ------------------------------------------------------------------ marking
\* s = [heap, gray]
\* a mark_object that does not look at is_marked
mark_object_again(s, object) ==
    IF object = NULL THEN s
    ELSE [heap |-> [s.heap EXCEPT ![object].is_marked = TRUE],
          gray |-> Append(s.gray, object)]

mark_object(s, object) ==
    IF object = NULL THEN s
    ELSE IF s.heap[object].is_marked THEN s
    ELSE [heap |-> [s.heap EXCEPT ![object].is_marked = TRUE],
          gray |-> Append(s.gray, object)]

mark_value(s, value) == IF IS_OBJ(value) THEN mark_object(s, AS_OBJ(value)) ELSE s

RECURSIVE mark_objects(_, _)
mark_objects(s, objs) ==
    IF objs = <<>> THEN s ELSE mark_objects(mark_object(s, Head(objs)), Tail(objs))

RECURSIVE mark_array(_, _)
mark_array(s, values) ==
    IF values = <<>> THEN s ELSE mark_array(mark_value(s, Head(values)), Tail(values))

\* mark_table; the entries are visited in key order (the hash order is not modelled)
RECURSIVE mark_entries(_, _, _)
mark_entries(s, t, keys) ==
    IF keys = <<>> THEN s
    ELSE mark_entries(mark_value(mark_object(s, Head(keys)), t.map[Head(keys)]), t, Tail(keys))

mark_table(s, t) == mark_entries(s, t, SetToSeq(Keys(t)))

mark_compiler_roots(s) == mark_objects(s, [i \in 1..Len(current) |-> current[Len(current) + 1 - i]])

mark_roots(s) ==
    LET s1 == mark_array(s, vm_stack)
        s2 == mark_objects(s1, [i \in 1..Len(vm_frames) |-> vm_frames[i].closure])
        s3 == mark_objects(s2, vm_open_upvalues)
        s4 == mark_table(s3, vm_globals)
    IN mark_compiler_roots(s4)

blacken_object(s, object) ==
    LET o == s.heap[object]
    IN CASE o.type = "closure" ->
              mark_objects(mark_object(s, o.function), o.upvalues)
         [] o.type = "function" ->
              mark_array(mark_object(s, o.name), o.constants)
         [] o.type = "upvalue" ->
              mark_value(s, o.closed)
         [] o.type = "bound_method" ->
              mark_object(mark_value(s, o.receiver), o.method)
         [] o.type = "class" ->
              mark_table(mark_object(s, o.name), o.methods)
         [] o.type = "instance" ->
              mark_table(mark_object(s, o.klass), o.fields)
         [] OTHER -> s

\* sweep: the objects of vm.objects that stay, and those that are freed
sweep_kept(h, objs) == SelectSeq(objs, LAMBDA o : h[o].is_marked)
sweep_freed(h, objs) == {o \in Range(objs) : ~h[o].is_marked}

sweep_heap(h, objs) ==
    [o \in ObjIds |->
        IF o \in Range(objs)
        THEN IF h[o].is_marked THEN [h[o] EXCEPT !.is_marked = FALSE]
             ELSE [h[o] EXCEPT !.st = "freed"]
        ELSE IF h[o].st = "freed" THEN [h[o] EXCEPT !.is_marked = FALSE] ELSE h[o]]

\* table_remove_white: every key whose object is not marked is deleted
RECURSIVE remove_white(_, _, _)
remove_white(t, h, keys) ==
    IF keys = <<>> THEN t
    ELSE remove_white(IF h[Head(keys)].is_marked THEN t ELSE table_delete(t, Head(keys)),
                      h, Tail(keys))

table_remove_white(t, h) == remove_white(t, h, SetToSeq(Keys(t)))

\* ------------------------------------------------------------------ objects
Unallocated == [st |-> "unalloc", type |-> "none", is_marked |-> FALSE,
                uninit |-> FALSE]

\* the objects as their constructors leave them
ObjString(chars) == [st |-> "live", type |-> "string", is_marked |-> FALSE, uninit |-> TRUE,
                     chars |-> chars]
ObjFunction == [st |-> "live", type |-> "function", is_marked |-> FALSE, uninit |-> TRUE,
                name |-> NULL, constants |-> <<>>]
ObjNative == [st |-> "live", type |-> "native", is_marked |-> FALSE, uninit |-> TRUE]
\* new_closure: upvalue_count slots, all NULL
ObjClosure(function, upvalue_count) ==
    [st |-> "live", type |-> "closure", is_marked |-> FALSE, uninit |-> TRUE,
     function |-> function, upvalues |-> [i \in 1..upvalue_count |-> NULL]]
\* new_upvalue: open, pointing at a stack slot
ObjUpvalue(slot) ==
    [st |-> "live", type |-> "upvalue", is_marked |-> FALSE, uninit |-> TRUE,
     location |-> slot, closed |-> NIL_VAL]

\* new_class, new_instance, new_bound_method: the tables start empty
ObjClass(name) ==
    [st |-> "live", type |-> "class", is_marked |-> FALSE, uninit |-> TRUE,
     name |-> name, methods |-> EmptyTable]
ObjInstance(klass) ==
    [st |-> "live", type |-> "instance", is_marked |-> FALSE, uninit |-> TRUE,
     klass |-> klass, fields |-> EmptyTable]
ObjBoundMethod(receiver, method) ==
    [st |-> "live", type |-> "bound_method", is_marked |-> FALSE, uninit |-> TRUE,
     receiver |-> receiver, method |-> method]

Allocated == {o \in ObjIds : heap[o].st # "unalloc"}
Live == {o \in ObjIds : heap[o].st = "live"}
Freed == {o \in ObjIds : heap[o].st = "freed"}
NextId == Cardinality(Allocated) + 1

\* the names and string literals of the programs compiled: the text `init`
Chars == {<<"init">>}

\* ------------------------------------------------------------------ reachability
\* the objects an object's fields point to (the structs of object.h)
Refs(h, o) ==
    LET x == h[o]
    IN CASE x.type = "closure" -> ({x.function} \cup Range(x.upvalues)) \ {NULL}
         [] x.type = "function" ->
              ({x.name} \ {NULL}) \cup {AS_OBJ(v) : v \in {w \in Range(x.constants) : IS_OBJ(w)}}
         [] x.type = "upvalue" -> IF IS_OBJ(x.closed) THEN {AS_OBJ(x.closed)} ELSE {}
         [] x.type = "bound_method" ->
              {x.method} \cup (IF IS_OBJ(x.receiver) THEN {AS_OBJ(x.receiver)} ELSE {})
         [] x.type = "class" ->
              ({x.name} \ {NULL}) \cup Keys(x.methods)
              \cup {AS_OBJ(v) : v \in {x.methods.map[k] : k \in Keys(x.methods)}}
         [] x.type = "instance" ->
              {x.klass} \cup Keys(x.fields)
              \cup {AS_OBJ(v) : v \in {w \in {x.fields.map[k] : k \in Keys(x.fields)} : IS_OBJ(w)}}
         [] OTHER -> {}

ValueObjs(values) == {AS_OBJ(v) : v \in {w \in values : IS_OBJ(w)}}

\* the roots the program has: stack slots, frames' closures, open upvalues,
\* globals' keys and values, the functions of the compiler chain
Roots ==
    ValueObjs(Range(vm_stack))
    \cup {vm_frames[i].closure : i \in 1..Len(vm_frames)}
    \cup Range(vm_open_upvalues)
    \cup Keys(vm_globals) \cup ValueObjs({vm_globals.map[k] : k \in Keys(vm_globals)})
    \cup Range(current)

RECURSIVE Closure(_, _)
Closure(h, S) ==
    LET T == S \cup UNION {Refs(h, o) : o \in S}
    IN IF T = S THEN S ELSE Closure(h, T)

Reachable == Closure(heap, Roots)

\* ------------------------------------------------------------------ SpecGC: init
InitGC ==
    /\ heap = [o \in ObjIds |-> Unallocated]
    /\ vm_objects = <<>>
    /\ vm_stack = <<>>
    /\ vm_frames = <<>>
    /\ vm_open_upvalues = <<>>
    /\ vm_globals = EmptyTable
    /\ vm_strings = EmptyTable
    /\ vm_init_string = NULL
    /\ vm_gray_stack = <<>>
    /\ current = <<>>
    /\ gc_pc = "off"
    /\ stress \in BOOLEAN
    /\ phase = "boot"
    /\ reg = NULL
    /\ collections = 0
    /\ ub = FALSE
    /\ source = <<>> /\ junk = <<>> /\ compiled = <<>> /\ vm = <<>> /\ stdout = <<>>
    /\ NoScanner /\ NoEqual /\ NoTable
    \* init_vm after reset_stack and the init_table calls
    /\ ops = << [op |-> "copy_string", chars |-> <<"init">>],
                [op |-> "set_init_string"],
                [op |-> "copy_string", chars |-> <<"clock">>],
                [op |-> "push_reg"],
                [op |-> "new_native"],
                [op |-> "push_reg"],
                [op |-> "table_set", table |-> "globals", from |-> "stack"],
                [op |-> "pop2"] >>

\* one call of reallocate that grows a block
Realloc == [op |-> "realloc", st |-> IF stress THEN "stress" ELSE "threshold"]

Running(name) == ~ub /\ gc_pc = "off" /\ ops # <<>> /\ Head(ops).op = name

\* ------------------------------------------------------------------ reallocate, its test
\* a test that lets every change of size collect
reallocate_resizes(old_size, new_size) == new_size # old_size

\* reallocate's test `new_size > old_size`, under which it may collect
reallocate_grows(old_size, new_size) == new_size > old_size

\* sizeof, in fields of the object
SizeOf(x) == Cardinality(DOMAIN x)

\* FREE(type, pointer): reallocate(pointer, sizeof(type), 0)
FREE(x) == [old_size |-> SizeOf(x), new_size |-> 0]

\* ------------------------------------------------------------------ collect_garbage
\* The values is_marked has in memory the program never wrote: an object
\* allocated since the last collection reads as marked if it is in `garbage`,
\* and so does freed memory that is still referenced.
Unsettled == {o \in ObjIds : heap[o].uninit}
    \cup (Freed \cap Closure(heap, Roots \cup Keys(vm_strings)))

settle(h, garbage) ==
    [o \in ObjIds |->
        IF o \in garbage THEN [h[o] EXCEPT !.is_marked = TRUE, !.uninit = FALSE]
        ELSE [h[o] EXCEPT !.uninit = FALSE]]

MarkRoots ==
    /\ ~ub /\ gc_pc = "mark_roots"
    /\ \E garbage \in SUBSET Unsettled :
         LET s == mark_roots([heap |-> settle(heap, garbage), gray |-> vm_gray_stack])
         IN /\ heap' = s.heap
            /\ vm_gray_stack' = s.gray
    /\ gc_pc' = "trace_references"
    /\ ub' = (Roots \cap Freed # {})
    /\ UNCHANGED <<vm_objects, vm_stack, vm_frames, vm_open_upvalues, vm_globals, vm_strings,
                   vm_init_string, current, ops, reg, stress, phase, collections>>
    /\ UNCHANGED <<vmvars, unitvars>>

\* one iteration of the loop of trace_references
BlackenObject ==
    /\ ~ub /\ gc_pc = "trace_references"
    /\ vm_gray_stack # <<>>
    /\ LET object == vm_gray_stack[Len(vm_gray_stack)]
           s == blacken_object([heap |-> heap,
                                gray |-> SubSeq(vm_gray_stack, 1, Len(vm_gray_stack) - 1)],
                               object)
       IN /\ heap' = s.heap
          /\ vm_gray_stack' = s.gray
    /\ ub' = (Refs(heap, vm_gray_stack[Len(vm_gray_stack)]) \cap Freed # {})
    /\ UNCHANGED <<vm_objects, vm_stack, vm_frames, vm_open_upvalues, vm_globals, vm_strings,
                   vm_init_string, current, gc_pc, ops, reg, stress, phase, collections>>
    /\ UNCHANGED <<vmvars, unitvars>>

TableRemoveWhite ==
    /\ ~ub /\ gc_pc = "trace_references"
    /\ vm_gray_stack = <<>>
    /\ vm_strings' = table_remove_white(vm_strings, heap)
    /\ gc_pc' = "sweep"
    /\ ub' = (Keys(vm_strings) \cap Freed # {})
    /\ UNCHANGED <<heap, vm_objects, vm_stack, vm_frames, vm_open_upvalues, vm_globals,
                   vm_init_string, vm_gray_stack, current, ops, reg, stress, phase, collections>>
    /\ UNCHANGED <<vmvars, unitvars>>

\* sweep, and with it the end of collect_garbage; each free_object is a call of
\* reallocate, which collects if its test says so
Sweep ==
    /\ ~ub /\ gc_pc = "sweep"
    /\ heap' = sweep_heap(heap, vm_objects)
    /\ vm_objects' = sweep_kept(heap, vm_objects)
    /\ gc_pc' = IF \E o \in sweep_freed(heap, vm_objects) :
                      reallocate_grows(FREE(heap[o]).old_size, FREE(heap[o]).new_size)
               THEN "mark_roots"
               ELSE "off"
    /\ UNCHANGED <<ub, vm_stack, vm_frames, vm_open_upvalues, vm_globals, vm_strings,
                   vm_init_string, vm_gray_stack, current, ops, reg, stress, phase, collections>>
    /\ UNCHANGED <<vmvars, unitvars>>

\* ------------------------------------------------------------------ reallocate
\* #ifdef DEBUG_STRESS_GC collect_garbage(); the test of next_gc that follows
\* fails, because the collection has just set next_gc to twice bytes_allocated
ReallocStress ==
    /\ Running("realloc")
    /\ Head(ops).st = "stress"
    /\ gc_pc' = "mark_roots"
    /\ ops' = <<[Head(ops) EXCEPT !.st = "alloc"]>> \o Tail(ops)
    /\ UNCHANGED <<heap, vm_objects, vm_stack, vm_frames, vm_open_upvalues, vm_globals,
                   vm_strings, vm_init_string, vm_gray_stack, current, reg, stress, phase, collections, ub>>
    /\ UNCHANGED <<vmvars, unitvars>>

\* if (vm.bytes_allocated > vm.next_gc) collect_garbage(); the byte counts are
\* not modelled: once init_vm has set next_gc to 1 MB, a program of any size can run
ReallocThreshold ==
    /\ Running("realloc")
    /\ Head(ops).st = "threshold"
    /\ phase # "boot"
    /\ collections < MaxCollections
    /\ collections' = collections + 1
    /\ gc_pc' = "mark_roots"
    /\ ops' = <<[Head(ops) EXCEPT !.st = "alloc"]>> \o Tail(ops)
    /\ UNCHANGED <<heap, vm_objects, vm_stack, vm_frames, vm_open_upvalues, vm_globals,
                   vm_strings, vm_init_string, vm_gray_stack, current, reg, stress, phase, ub>>
    /\ UNCHANGED <<vmvars, unitvars>>

\* the realloc itself
ReallocReturn ==
    /\ Running("realloc")
    /\ Head(ops).st \in {"threshold", "alloc"}
    /\ ops' = Tail(ops)
    /\ UNCHANGED <<heap, vm_objects, vm_stack, vm_frames, vm_open_upvalues, vm_globals,
                   vm_strings, vm_init_string, vm_gray_stack, current, gc_pc, reg, stress,
                   phase, collections, ub>>
    /\ UNCHANGED <<vmvars, unitvars>>

\* ------------------------------------------------------------------ object.c
\* allocate_object, after its reallocate: type and next are set and the object
\* is linked into vm.objects. is_marked is not assigned: it holds what malloc
\* returned (uninit), a value that is settled when the collector first reads it
AllocateObject ==
    /\ Running("allocate_object")
    /\ NextId <= MaxObjs
    /\ heap' = [heap EXCEPT ![NextId] = Head(ops).obj]
    /\ vm_objects' = <<NextId>> \o vm_objects
    /\ reg' = NextId
    /\ ops' = Tail(ops)
    /\ UNCHANGED <<vm_stack, vm_frames, vm_open_upvalues, vm_globals, vm_strings,
                   vm_init_string, vm_gray_stack, current, gc_pc, stress, phase, collections, ub>>
    /\ UNCHANGED <<vmvars, unitvars>>

\* table_find_string: the interned string with these characters, or NULL. A key
\* that points to freed memory may or may not still compare equal.
table_find_string(t, chars) ==
    LET live == {k \in Keys(t) : heap[k].st = "live" /\ heap[k].chars = chars}
        dangling == {k \in Keys(t) : heap[k].st = "freed" /\ heap[k].chars = chars}
    IN IF t.len = 0 THEN {NULL}
       ELSE IF live # {} THEN live \cup dangling
       ELSE dangling \cup {NULL}

\* the steps of allocate_string(chars): ALLOCATE_OBJ, then table_set(&vm.strings, string, NIL_VAL)
allocate_string(chars) ==
    << Realloc,
       [op |-> "allocate_object", obj |-> ObjString(chars)],
       [op |-> "table_set", table |-> "strings", from |-> "reg"] >>

\* copy_string: returns the interned string (in reg), or copies the characters
\* into a fresh block and calls allocate_string
CopyString ==
    /\ Running("copy_string")
    /\ \E interned \in table_find_string(vm_strings, Head(ops).chars) :
         IF interned # NULL
         THEN /\ reg' = interned
              /\ ops' = Tail(ops)
         ELSE /\ reg' = reg
              /\ ops' = <<Realloc>> \o allocate_string(Head(ops).chars) \o Tail(ops)
    /\ ub' = (Keys(vm_strings) \cap Freed # {})
    /\ UNCHANGED <<heap, vm_objects, vm_stack, vm_frames, vm_open_upvalues, vm_globals,
                   vm_strings, vm_init_string, vm_gray_stack, current, gc_pc, stress, phase, collections>>
    /\ UNCHANGED <<vmvars, unitvars>>

\* take_string: like copy_string for a block the caller already allocated
TakeString ==
    /\ Running("take_string")
    /\ \E interned \in table_find_string(vm_strings, Head(ops).chars) :
         IF interned # NULL
         THEN /\ reg' = interned
              /\ ops' = Tail(ops)
         ELSE /\ reg' = reg
              /\ ops' = allocate_string(Head(ops).chars) \o Tail(ops)
    /\ ub' = (Keys(vm_strings) \cap Freed # {})
    /\ UNCHANGED <<heap, vm_objects, vm_stack, vm_frames, vm_open_upvalues, vm_globals,
                   vm_strings, vm_init_string, vm_gray_stack, current, gc_pc, stress, phase, collections>>
    /\ UNCHANGED <<vmvars, unitvars>>

\* ------------------------------------------------------------------ table.c
TableOf(name) == IF name = "strings" THEN vm_strings ELSE vm_globals

SetTable(name, t) ==
    IF name = "strings" THEN vm_strings' = t /\ UNCHANGED vm_globals
    ELSE vm_globals' = t /\ UNCHANGED vm_strings

\* the arguments of the pending table_set, evaluated at the call
TableSetKey(o) ==
    CASE o.from = "reg" -> reg
      [] o.from = "stack" -> AS_OBJ(vm_stack[1])
      [] OTHER -> o.key

TableSetValue(o) ==
    CASE o.from = "reg" -> NIL_VAL
      [] o.from = "stack" -> vm_stack[2]
      [] OTHER -> vm_stack[Len(vm_stack)]

\* table_set when the load factor allows the store
TableSet ==
    /\ Running("table_set")
    /\ LET o == Head(ops)
           t == TableOf(o.table)
       IN /\ ~table_needs_growth(t)
          /\ \E reuse \in (IF t.len > Cardinality(Keys(t)) THEN BOOLEAN ELSE {FALSE}) :
               SetTable(o.table, table_store(t, TableSetKey(o), TableSetValue(o), reuse))
    /\ ops' = Tail(ops)
    /\ ub' = (TableSetKey(Head(ops)) \in Freed)
    /\ UNCHANGED <<heap, vm_objects, vm_stack, vm_frames, vm_open_upvalues,
                   vm_init_string, vm_gray_stack, current, gc_pc, reg, stress, phase, collections>>
    /\ UNCHANGED <<vmvars, unitvars>>

\* table_set that calls adjust_capacity, up to the ALLOCATE of the new entries
TableSetGrow ==
    /\ Running("table_set")
    /\ LET o == Head(ops)
           t == TableOf(o.table)
       IN /\ table_needs_growth(t)
          /\ ops' = << Realloc,
                       [op |-> "adjust_capacity", table |-> o.table, from |-> "args",
                        key |-> TableSetKey(o), value |-> TableSetValue(o),
                        capacity |-> GROW_CAPACITY(t.cap)] >> \o Tail(ops)
    /\ UNCHANGED <<heap, vm_objects, vm_stack, vm_frames, vm_open_upvalues, vm_globals,
                   vm_strings, vm_init_string, vm_gray_stack, current, gc_pc, reg, stress,
                   phase, collections, ub>>
    /\ UNCHANGED <<vmvars, unitvars>>

\* the rest of adjust_capacity and the store of table_set
AdjustCapacity ==
    /\ Running("adjust_capacity")
    /\ LET o == Head(ops)
       IN SetTable(o.table, table_store(adjust_capacity(TableOf(o.table), o.capacity),
                                        o.key, o.value, FALSE))
    /\ ops' = Tail(ops)
    /\ ub' = ((Keys(TableOf(Head(ops).table)) \cup {Head(ops).key}) \cap Freed # {})
    /\ UNCHANGED <<heap, vm_objects, vm_stack, vm_frames, vm_open_upvalues,
                   vm_init_string, vm_gray_stack, current, gc_pc, reg, stress, phase, collections>>
    /\ UNCHANGED <<vmvars, unitvars>>

\* ------------------------------------------------------------------ init_vm
\* vm.init_string = copy_string("init", 4): the assignment
SetInitString ==
    /\ Running("set_init_string")
    /\ vm_init_string' = reg
    /\ ops' = Tail(ops)
    /\ reg' = NULL
    /\ UNCHANGED <<heap, vm_objects, vm_stack, vm_frames, vm_open_upvalues, vm_globals,
                   vm_strings, vm_gray_stack, current, gc_pc, stress, phase, collections, ub>>
    /\ UNCHANGED <<vmvars, unitvars>>

\* push(OBJ_VAL(x)) of the object a call just returned
PushReg ==
    /\ Running("push_reg")
    /\ vm_stack' = Append(vm_stack, OBJ_VAL(reg))
    /\ ops' = Tail(ops)
    /\ reg' = NULL
    /\ UNCHANGED <<heap, vm_objects, vm_frames, vm_open_upvalues, vm_globals, vm_strings,
                   vm_init_string, vm_gray_stack, current, gc_pc, stress, phase, collections, ub>>
    /\ UNCHANGED <<vmvars, unitvars>>

\* define_native: new_native(function)
NewNative ==
    /\ Running("new_native")
    /\ ops' = <<Realloc, [op |-> "allocate_object", obj |-> ObjNative]>> \o Tail(ops)
    /\ UNCHANGED <<heap, vm_objects, vm_stack, vm_frames, vm_open_upvalues, vm_globals,
                   vm_strings, vm_init_string, vm_gray_stack, current, gc_pc, reg, stress,
                   phase, collections, ub>>
    /\ UNCHANGED <<vmvars, unitvars>>

\* define_native: pop(); pop();
Pop2 ==
    /\ Running("pop2")
    /\ vm_stack' = SubSeq(vm_stack, 1, Len(vm_stack) - 2)
    /\ ops' = Tail(ops)
    /\ UNCHANGED <<heap, vm_objects, vm_frames, vm_open_upvalues, vm_globals, vm_strings,
                   vm_init_string, vm_gray_stack, current, gc_pc, reg, stress, phase, collections, ub>>
    /\ UNCHANGED <<vmvars, unitvars>>

\* ------------------------------------------------------------------ compiler (allocation only)
Room(n) == NextId + n - 1 <= MaxObjs

Compiling == ~ub /\ gc_pc = "off" /\ ops = <<>> /\ phase = "compile" /\ current # <<>>

\* new_function, as init_compiler calls it
new_function == <<Realloc, [op |-> "allocate_object", obj |-> ObjFunction]>>

\* interpret -> compile -> init_compiler(&compiler, TYPE_SCRIPT), up to new_function
Compile ==
    /\ ~ub /\ gc_pc = "off" /\ ops = <<>> /\ phase = "boot"
    /\ Room(2)
    /\ phase' = "compile"
    /\ ops' = new_function \o <<[op |-> "init_compiler", type |-> "TYPE_SCRIPT"]>>
    /\ UNCHANGED <<heap, vm_objects, vm_stack, vm_frames, vm_open_upvalues, vm_globals,
                   vm_strings, vm_init_string, vm_gray_stack, current, gc_pc, reg, stress, collections, ub>>
    /\ UNCHANGED <<vmvars, unitvars>>

\* init_compiler after new_function: current = compiler; a function's name is interned
InitCompiler ==
    /\ Running("init_compiler")
    /\ current' = Append(current, reg)
    /\ ops' = (IF Head(ops).type # "TYPE_SCRIPT"
               THEN <<[op |-> "copy_string", chars |-> Head(ops).name],
                      [op |-> "set_function_name"]>>
               ELSE <<>>) \o Tail(ops)
    /\ reg' = NULL
    /\ UNCHANGED <<heap, vm_objects, vm_stack, vm_frames, vm_open_upvalues, vm_globals,
                   vm_strings, vm_init_string, vm_gray_stack, gc_pc, stress, phase, collections, ub>>
    /\ UNCHANGED <<vmvars, unitvars>>

\* current->function->name = copy_string(...): the assignment
SetFunctionName ==
    /\ Running("set_function_name")
    /\ heap' = [heap EXCEPT ![current[Len(current)]].name = reg]
    /\ ops' = Tail(ops)
    /\ reg' = NULL
    /\ UNCHANGED <<vm_objects, vm_stack, vm_frames, vm_open_upvalues, vm_globals,
                   vm_strings, vm_init_string, vm_gray_stack, current, gc_pc, stress,
                   phase, collections, ub>>
    /\ UNCHANGED <<vmvars, unitvars>>

\* string() and identifier_constant(): make_constant(OBJ_VAL(copy_string(...)))
StringConstant ==
    /\ Compiling
    /\ Room(1)
    /\ Len(heap[current[Len(current)]].constants) < MaxConstants
    /\ \E chars \in Chars :
         ops' = <<[op |-> "copy_string", chars |-> chars], [op |-> "make_constant"]>>
    /\ UNCHANGED <<heap, vm_objects, vm_stack, vm_frames, vm_open_upvalues, vm_globals,
                   vm_strings, vm_init_string, vm_gray_stack, current, gc_pc, reg, stress,
                   phase, collections, ub>>
    /\ UNCHANGED <<vmvars, unitvars>>

\* write_value_array's test `array->cap < array->len + 1`; the capacity is 0, 8, 16, ...
value_array_full(len) == len = 0 \/ (len >= TABLE_MIN_CAP /\ len % TABLE_MIN_CAP = 0)

\* make_constant -> add_constant -> write_value_array, up to GROW_ARRAY
MakeConstant ==
    /\ Running("make_constant")
    /\ LET function == current[Len(current)]
       IN IF value_array_full(Len(heap[function].constants))
          THEN /\ ops' = <<Realloc, [op |-> "write_value_array", value |-> OBJ_VAL(reg)]>>
                         \o Tail(ops)
               /\ heap' = heap
          ELSE /\ ops' = Tail(ops)
               /\ heap' = [heap EXCEPT ![function].constants = Append(@, OBJ_VAL(reg))]
    /\ reg' = NULL
    /\ UNCHANGED <<vm_objects, vm_stack, vm_frames, vm_open_upvalues, vm_globals,
                   vm_strings, vm_init_string, vm_gray_stack, current, gc_pc, stress,
                   phase, collections, ub>>
    /\ UNCHANGED <<vmvars, unitvars>>

\* write_value_array after GROW_ARRAY: the value is stored
WriteValueArray ==
    /\ Running("write_value_array")
    /\ heap' = [heap EXCEPT ![current[Len(current)]].constants = Append(@, Head(ops).value)]
    /\ ops' = Tail(ops)
    /\ reg' = NULL
    /\ UNCHANGED <<vm_objects, vm_stack, vm_frames, vm_open_upvalues, vm_globals,
                   vm_strings, vm_init_string, vm_gray_stack, current, gc_pc, stress,
                   phase, collections, ub>>
    /\ UNCHANGED <<vmvars, unitvars>>

\* write_chunk when the code array is full: GROW_ARRAY
WriteChunk ==
    /\ Compiling
    /\ ops' = <<Realloc>>
    /\ UNCHANGED <<heap, vm_objects, vm_stack, vm_frames, vm_open_upvalues, vm_globals,
                   vm_strings, vm_init_string, vm_gray_stack, current, gc_pc, reg, stress,
                   phase, collections, ub>>
    /\ UNCHANGED <<vmvars, unitvars>>

\* function(TYPE_FUNCTION) -> init_compiler, up to new_function
Function ==
    /\ Compiling
    /\ Len(current) < MaxCompilers
    /\ Room(2)
    /\ Len(heap[current[Len(current)]].constants) < MaxConstants
    /\ \E chars \in Chars :
         ops' = new_function
                \o <<[op |-> "init_compiler", type |-> "TYPE_FUNCTION", name |-> chars]>>
    /\ UNCHANGED <<heap, vm_objects, vm_stack, vm_frames, vm_open_upvalues, vm_globals,
                   vm_strings, vm_init_string, vm_gray_stack, current, gc_pc, reg, stress,
                   phase, collections, ub>>
    /\ UNCHANGED <<vmvars, unitvars>>

\* the end of function(): end_compiler, then make_constant(OBJ_VAL(function))
EndFunction ==
    /\ Compiling
    /\ Len(current) > 1
    /\ current' = SubSeq(current, 1, Len(current) - 1)
    /\ reg' = current[Len(current)]
    /\ ops' = <<[op |-> "make_constant"]>>
    /\ UNCHANGED <<heap, vm_objects, vm_stack, vm_frames, vm_open_upvalues, vm_globals,
                   vm_strings, vm_init_string, vm_gray_stack, gc_pc, stress, phase, collections, ub>>
    /\ UNCHANGED <<vmvars, unitvars>>

\* new_closure(function): the upvalue array, then the object. new_function never
\* assigns function->upvalue_count, so the count read here is whatever the field holds
new_closure(function, upvalue_count) ==
    (IF upvalue_count > 0 THEN <<Realloc>> ELSE <<>>)
    \o <<Realloc, [op |-> "allocate_object", obj |-> ObjClosure(function, upvalue_count)]>>

\* the end of compile() and interpret() up to new_closure:
\* end_compiler; push(OBJ_VAL(function)); new_closure(function)
Interpret ==
    /\ Compiling
    /\ Len(current) = 1
    /\ Room(1)
    /\ current' = <<>>
    /\ reg' = current[1]
    /\ vm_stack' = Append(vm_stack, OBJ_VAL(current[1]))
    /\ \E upvalue_count \in 0..MaxUpvalues :
         ops' = new_closure(current[1], upvalue_count) \o <<[op |-> "interpret_call"]>>
    /\ UNCHANGED <<heap, vm_objects, vm_frames, vm_open_upvalues, vm_globals,
                   vm_strings, vm_init_string, vm_gray_stack, gc_pc, stress, phase, collections, ub>>
    /\ UNCHANGED <<vmvars, unitvars>>

\* call(closure, argc): the new frame
call(closure, arg_count) == [closure |-> closure, slots |-> Len(vm_stack) - arg_count]

\* interpret after new_closure: pop(); push(OBJ_VAL(closure)); call(closure, 0); run()
InterpretCall ==
    /\ Running("interpret_call")
    /\ vm_stack' = Append(SubSeq(vm_stack, 1, Len(vm_stack) - 1), OBJ_VAL(reg))
    /\ vm_frames' = Append(vm_frames, call(reg, 0))
    /\ phase' = "run"
    /\ ops' = Tail(ops)
    /\ reg' = NULL
    /\ UNCHANGED <<heap, vm_objects, vm_open_upvalues, vm_globals, vm_strings,
                   vm_init_string, vm_gray_stack, current, gc_pc, stress, collections, ub>>
    /\ UNCHANGED <<vmvars, unitvars>>

\* ------------------------------------------------------------------ run (allocation only)
\* an instruction boundary of run()
AtInstruction == ~ub /\ gc_pc = "off" /\ ops = <<>> /\ phase = "run"

Frame == vm_frames[Len(vm_frames)]
FrameFunction == heap[Frame.closure].function
Constants == heap[FrameFunction].constants
StringConstants == {i \in DOMAIN Constants : heap[AS_OBJ(Constants[i])].type = "string"}
FunctionConstants == {i \in DOMAIN Constants : heap[AS_OBJ(Constants[i])].type = "function"}
Peek(distance) == vm_stack[Len(vm_stack) - distance]
PopN(n) == SubSeq(vm_stack, 1, Len(vm_stack) - n)

\* OP_CONSTANT: push(constant); print_value(constant)
OpConstant ==
    /\ AtInstruction
    /\ Len(vm_stack) < MaxStack
    /\ \E i \in DOMAIN Constants :
         /\ vm_stack' = Append(vm_stack, Constants[i])
         /\ ub' = ({FrameFunction, AS_OBJ(Constants[i])} \cap Freed # {})
    /\ UNCHANGED <<heap, vm_objects, vm_frames, vm_open_upvalues, vm_globals, vm_strings,
                   vm_init_string, vm_gray_stack, current, gc_pc, ops, reg, stress, phase,
                   collections>>
    /\ UNCHANGED <<vmvars, unitvars>>

\* OP_POP, of a slot no open upvalue points to (end_scope emits OP_CLOSE_UPVALUE for those)
OpPop ==
    /\ AtInstruction
    /\ Len(vm_stack) > Frame.slots
    /\ \A u \in Range(vm_open_upvalues) : heap[u].location # Len(vm_stack)
    /\ vm_stack' = PopN(1)
    /\ ub' = (FrameFunction \in Freed)
    /\ UNCHANGED <<heap, vm_objects, vm_frames, vm_open_upvalues, vm_globals, vm_strings,
                   vm_init_string, vm_gray_stack, current, gc_pc, ops, reg, stress, phase,
                   collections>>
    /\ UNCHANGED <<vmvars, unitvars>>

\* OP_ADD of two strings: concatenate() up to take_string
OpAdd ==
    /\ AtInstruction
    /\ Len(vm_stack) > Frame.slots + 1
    /\ Room(1)
    /\ LET b == heap[AS_OBJ(Peek(0))]
           a == heap[AS_OBJ(Peek(1))]
       IN /\ a.type = "string" /\ b.type = "string"
          /\ Len(a.chars) + Len(b.chars) <= MaxConcat
          /\ ops' = <<Realloc, [op |-> "take_string", chars |-> a.chars \o b.chars],
                      [op |-> "concatenate_end"]>>
    /\ ub' = ({FrameFunction, AS_OBJ(Peek(0)), AS_OBJ(Peek(1))} \cap Freed # {})
    /\ UNCHANGED <<heap, vm_objects, vm_stack, vm_frames, vm_open_upvalues, vm_globals,
                   vm_strings, vm_init_string, vm_gray_stack, current, gc_pc, reg, stress,
                   phase, collections>>
    /\ UNCHANGED <<vmvars, unitvars>>

\* concatenate() after take_string: pop(); pop(); push(OBJ_VAL(result))
ConcatenateEnd ==
    /\ Running("concatenate_end")
    /\ vm_stack' = Append(PopN(2), OBJ_VAL(reg))
    /\ ops' = Tail(ops)
    /\ reg' = NULL
    /\ UNCHANGED <<heap, vm_objects, vm_frames, vm_open_upvalues, vm_globals, vm_strings,
                   vm_init_string, vm_gray_stack, current, gc_pc, stress, phase,
                   collections, ub>>
    /\ UNCHANGED <<vmvars, unitvars>>

\* OP_DEFINE_GLOBAL: table_set(&vm.globals, name, peek(0)), then pop()
OpDefineGlobal ==
    /\ AtInstruction
    /\ Len(vm_stack) > Frame.slots
    /\ \A u \in Range(vm_open_upvalues) : heap[u].location # Len(vm_stack)
    /\ \E i \in StringConstants :
         /\ ops' = <<[op |-> "table_set", table |-> "globals", from |-> "args",
                      key |-> AS_OBJ(Constants[i])],
                     [op |-> "pop"]>>
    /\ ub' = (FrameFunction \in Freed)
    /\ UNCHANGED <<heap, vm_objects, vm_stack, vm_frames, vm_open_upvalues, vm_globals,
                   vm_strings, vm_init_string, vm_gray_stack, current, gc_pc, reg, stress,
                   phase, collections>>
    /\ UNCHANGED <<vmvars, unitvars>>

\* the pop() that ends OP_DEFINE_GLOBAL
Pop ==
    /\ Running("pop")
    /\ vm_stack' = PopN(1)
    /\ ops' = Tail(ops)
    /\ UNCHANGED <<heap, vm_objects, vm_frames, vm_open_upvalues, vm_globals, vm_strings,
                   vm_init_string, vm_gray_stack, current, gc_pc, reg, stress, phase,
                   collections, ub>>
    /\ UNCHANGED <<vmvars, unitvars>>

\* capture_upvalue's walk of vm.open_upvalues: the number of upvalues above `local`
upvalues_above(local) == Cardinality({k \in DOMAIN vm_open_upvalues :
                                        \A j \in 1..k : heap[vm_open_upvalues[j]].location > local})

\* OP_CLOSURE: new_closure(fn), then push and the capture loop
OpClosure ==
    /\ AtInstruction
    /\ Len(vm_stack) < MaxStack
    /\ Room(1)
    /\ \E i \in FunctionConstants : \E upvalue_count \in 0..MaxUpvalues :
         /\ ops' = new_closure(AS_OBJ(Constants[i]), upvalue_count)
                   \o <<[op |-> "push_closure"]>>
         /\ ub' = ({FrameFunction, AS_OBJ(Constants[i])} \cap Freed # {})
    /\ UNCHANGED <<heap, vm_objects, vm_stack, vm_frames, vm_open_upvalues, vm_globals,
                   vm_strings, vm_init_string, vm_gray_stack, current, gc_pc, reg, stress,
                   phase, collections>>
    /\ UNCHANGED <<vmvars, unitvars>>

\* OP_CLOSURE: push(OBJ_VAL(closure)); the loop over closure->upvalue_count follows
PushClosure ==
    /\ Running("push_closure")
    /\ vm_stack' = Append(vm_stack, OBJ_VAL(reg))
    /\ ops' = [i \in 1..Len(heap[reg].upvalues) |-> [op |-> "capture", i |-> i]] \o Tail(ops)
    /\ reg' = NULL
    /\ UNCHANGED <<heap, vm_objects, vm_frames, vm_open_upvalues, vm_globals, vm_strings,
                   vm_init_string, vm_gray_stack, current, gc_pc, stress, phase,
                   collections, ub>>
    /\ UNCHANGED <<vmvars, unitvars>>

\* one iteration of OP_CLOSURE's loop with is_local = 1: capture_upvalue(frame->slots + index)
\* returns the open upvalue of that slot, or goes on to new_upvalue
CaptureLocal ==
    /\ Running("capture")
    /\ \E local \in Frame.slots .. (Len(vm_stack) - 1) :
         LET n == upvalues_above(local)
             closure == AS_OBJ(Peek(0))
         IN IF n < Len(vm_open_upvalues) /\ heap[vm_open_upvalues[n + 1]].location = local
            THEN /\ heap' = [heap EXCEPT ![closure].upvalues[Head(ops).i] =
                                             vm_open_upvalues[n + 1]]
                 /\ ops' = Tail(ops)
            ELSE /\ Room(1)
                 /\ heap' = heap
                 /\ ops' = <<Realloc, [op |-> "allocate_object", obj |-> ObjUpvalue(local)],
                             [op |-> "link_upvalue", i |-> Head(ops).i]>> \o Tail(ops)
    /\ UNCHANGED <<vm_objects, vm_stack, vm_frames, vm_open_upvalues, vm_globals,
                   vm_strings, vm_init_string, vm_gray_stack, current, gc_pc, reg, stress,
                   phase, collections, ub>>
    /\ UNCHANGED <<vmvars, unitvars>>

\* one iteration of OP_CLOSURE's loop with is_local = 0: frame->closure->upvalues[index]
CaptureEnclosing ==
    /\ Running("capture")
    /\ \E index \in DOMAIN heap[Frame.closure].upvalues :
         heap' = [heap EXCEPT ![AS_OBJ(Peek(0))].upvalues[Head(ops).i] =
                                  heap[Frame.closure].upvalues[index]]
    /\ ops' = Tail(ops)
    /\ UNCHANGED <<vm_objects, vm_stack, vm_frames, vm_open_upvalues, vm_globals,
                   vm_strings, vm_init_string, vm_gray_stack, current, gc_pc, reg, stress,
                   phase, collections, ub>>
    /\ UNCHANGED <<vmvars, unitvars>>

\* capture_upvalue after new_upvalue: the upvalue is linked in front of the first
\* upvalue at or below its slot, and stored in the closure
LinkUpvalue ==
    /\ Running("link_upvalue")
    /\ LET n == upvalues_above(heap[reg].location)
       IN vm_open_upvalues' = SubSeq(vm_open_upvalues, 1, n) \o <<reg>>
                              \o SubSeq(vm_open_upvalues, n + 1, Len(vm_open_upvalues))
    /\ heap' = [heap EXCEPT ![AS_OBJ(Peek(0))].upvalues[Head(ops).i] = reg]
    /\ ops' = Tail(ops)
    /\ reg' = NULL
    /\ UNCHANGED <<vm_objects, vm_stack, vm_frames, vm_globals, vm_strings,
                   vm_init_string, vm_gray_stack, current, gc_pc, stress, phase,
                   collections, ub>>
    /\ UNCHANGED <<vmvars, unitvars>>

\* close_upvalues(last): the upvalues at the head of the list whose slot is at or
\* above `last` take the slot's value and leave the list
closing(last) == {k \in DOMAIN vm_open_upvalues :
                    \A j \in 1..k : heap[vm_open_upvalues[j]].location >= last}

close_upvalues_heap(last) ==
    [o \in ObjIds |->
        IF \E k \in closing(last) : vm_open_upvalues[k] = o
        THEN [heap[o] EXCEPT !.closed = vm_stack[heap[o].location], !.location = NULL]
        ELSE heap[o]]

close_upvalues_list(last) ==
    SubSeq(vm_open_upvalues, Cardinality(closing(last)) + 1, Len(vm_open_upvalues))

\* OP_CLOSE_UPVALUE: close_upvalues(vm.stack_top - 1); pop()
OpCloseUpvalue ==
    /\ AtInstruction
    /\ Len(vm_stack) > Frame.slots
    /\ \E u \in Range(vm_open_upvalues) : heap[u].location = Len(vm_stack)
    /\ heap' = close_upvalues_heap(Len(vm_stack))
    /\ vm_open_upvalues' = close_upvalues_list(Len(vm_stack))
    /\ vm_stack' = PopN(1)
    /\ ub' = (FrameFunction \in Freed)
    /\ UNCHANGED <<vm_objects, vm_frames, vm_globals, vm_strings, vm_init_string,
                   vm_gray_stack, current, gc_pc, ops, reg, stress, phase, collections>>
    /\ UNCHANGED <<vmvars, unitvars>>

\* OP_RETURN of the script: pop the result, close_upvalues(frame->slots),
\* frame_count--, pop the script closure, return INTERPRET_OK
OpReturn ==
    /\ AtInstruction
    /\ Len(vm_stack) > Frame.slots
    /\ Len(vm_frames) = 1
    /\ heap' = close_upvalues_heap(Frame.slots)
    /\ vm_open_upvalues' = close_upvalues_list(Frame.slots)
    /\ vm_frames' = SubSeq(vm_frames, 1, Len(vm_frames) - 1)
    /\ vm_stack' = PopN(2)
    /\ phase' = "done"
    /\ ub' = (FrameFunction \in Freed)
    /\ UNCHANGED <<vm_objects, vm_globals, vm_strings, vm_init_string, vm_gray_stack,
                   current, gc_pc, ops, reg, stress, collections>>
    /\ UNCHANGED <<vmvars, unitvars>>

NextGC ==
    \/ MarkRoots \/ BlackenObject \/ TableRemoveWhite \/ Sweep
    \/ ReallocStress \/ ReallocThreshold \/ ReallocReturn
    \/ AllocateObject \/ CopyString \/ TakeString
    \/ TableSet \/ TableSetGrow \/ AdjustCapacity
    \/ SetInitString \/ PushReg \/ NewNative \/ Pop2
    \/ Compile \/ InitCompiler \/ SetFunctionName \/ StringConstant \/ MakeConstant
    \/ WriteValueArray \/ WriteChunk \/ Function \/ EndFunction \/ Interpret \/ InterpretCall
    \/ OpConstant \/ OpPop \/ OpAdd \/ ConcatenateEnd \/ OpDefineGlobal \/ Pop
    \/ OpClosure \/ PushClosure \/ CaptureLocal \/ CaptureEnclosing \/ LinkUpvalue
    \/ OpCloseUpvalue \/ OpReturn

SpecGC == InitGC /\ [][NextGC]_vars

\* ------------------------------------------------------------------ claims on SpecGC
\* the objects the running program holds a reference to
Referenced ==
    Roots \cup ({vm_init_string} \ {NULL}) \cup UNION {Refs(heap, o) : o \in Live}

ReferencedStrings == {o \in Referenced : heap[o].type = "string"}

\* C1: a collection never frees an object that is reachable from the stack, a
\* frame's closure, an open upvalue, the globals or the compiler chain
C1_ReachableNeverFreed == [][(Freed' \ Freed) \cap Reachable = {}]_vars

\* C2: once init_vm has interned "init", vm.init_string is never a freed object
C2_InitStringLive == vm_init_string # NULL => vm_init_string \in Live

C4_NoFreedKey == gc_pc = "off" => Keys(vm_strings) \cap Freed = {}

\* C5: when a collection ends every survivor is unmarked, every unreachable
\* object has been unlinked and freed, and the gray stack is empty
C5_AfterCollection ==
    [][gc_pc = "sweep" =>
         /\ \A o \in Range(vm_objects') : ~heap'[o].is_marked
         /\ Range(vm_objects') \subseteq Reachable
         /\ vm_gray_stack' = <<>>]_vars

\* ======================================================================
\* The compiler (unnamed/part_003) as a function from a token sequence to
\* the functions it emits.  p is the state the C code keeps in its globals:
\* the scanner position, `parser`, the chain `current` (innermost last) and
\* the ObjFunctions created so far.  p.ret is the C return value of the
\* call that produced p.
\* ======================================================================

\* ------------------------------------------------------- compiler constants
PREC_NONE == 0
PREC_ASSIGNMENT == 1
PREC_OR == 2
PREC_AND == 3
PREC_EQUALITY == 4
PREC_TERM == 6
PREC_FACTOR == 7
PREC_CALL == 9
UINT8_COUNT == 256

\* (uint8_t)x
U8(x) == x % UINT8_COUNT

\* F applied to the state v that the C code has reached, v evaluated first
With(v, F(_)) == IF v = v THEN F(v) ELSE v

\* the token the scanner makes of one lexeme
\* the string literals of the inputs, each with the characters between its quotes
StringLiterals == ("\"hi \"" :> "hi ") @@ ("\"world\"" :> "world")

\* a character no token starts with, for which scan_token returns error_token
Stray == "@"

\* a token of the scanner; the text of a TOKEN_ERROR is its message
Token(lexeme) ==
    [lexeme |-> IF lexeme = Stray THEN "Unexpected character." ELSE lexeme,
     type |-> CASE lexeme = Stray -> "TOKEN_ERROR" [] lexeme = "(" -> "TOKEN_LEFT_PAREN" [] lexeme = ")" -> "TOKEN_RIGHT_PAREN"
                [] lexeme = "{" -> "TOKEN_LEFT_BRACE" [] lexeme = "}" -> "TOKEN_RIGHT_BRACE"
                [] lexeme = "," -> "TOKEN_COMMA" [] lexeme = "+" -> "TOKEN_PLUS"
                [] lexeme = ";" -> "TOKEN_SEMICOLON" [] lexeme = "=" -> "TOKEN_EQUAL"
                [] lexeme = "fun" -> "TOKEN_FUN" [] lexeme = "var" -> "TOKEN_VAR"
                [] lexeme = "print" -> "TOKEN_PRINT" [] lexeme = "return" -> "TOKEN_RETURN"
                [] lexeme = "class" -> "TOKEN_CLASS" [] lexeme = "this" -> "TOKEN_THIS"
                [] lexeme = "." -> "TOKEN_DOT" [] lexeme = "nil" -> "TOKEN_NIL"
                [] lexeme = "true" -> "TOKEN_TRUE" [] lexeme = "false" -> "TOKEN_FALSE"
                [] lexeme = "if" -> "TOKEN_IF" [] lexeme = "else" -> "TOKEN_ELSE"
                [] lexeme = "while" -> "TOKEN_WHILE" [] lexeme = "for" -> "TOKEN_FOR"
                [] lexeme = "*" -> "TOKEN_STAR" [] lexeme = "-" -> "TOKEN_MINUS"
                [] lexeme = "!" -> "TOKEN_BANG" [] lexeme = "==" -> "TOKEN_EQUAL_EQUAL"
                [] lexeme = "and" -> "TOKEN_AND" [] lexeme = "or" -> "TOKEN_OR"
                [] lexeme \in {"0", "1", "2", "3"} -> "TOKEN_NUMBER"
                [] lexeme \in DOMAIN StringLiterals -> "TOKEN_STRING"
                [] lexeme = "" -> "TOKEN_EOF"
                [] OTHER -> "TOKEN_IDENTIFIER"]

\* scan_token over a source that is already split into lexemes; TOKEN_EOF at and after the end
scan_token(p) == Token(IF p.pos <= Len(p.toks) THEN p.toks[p.pos] ELSE "")

\* error_at, for error() and error_at_current() alike: the token only picks the text printed
error_at(p, msg) ==
    IF p.panic_mode THEN p
    ELSE [p EXCEPT !.panic_mode = TRUE, !.had_error = TRUE, !.errors = Append(@, msg),
                   !.trail = Append(@, [event |-> "error", had_error |-> TRUE,
                                        panic_mode |-> TRUE])]

RECURSIVE scan_loop(_)
scan_loop(p) ==
    LET q == [p EXCEPT !.cur = scan_token(p),
                       !.pos = IF p.pos <= Len(p.toks) THEN p.pos + 1 ELSE p.pos]
    IN IF q.cur.type # "TOKEN_ERROR" THEN q ELSE scan_loop(error_at(q, q.cur.lexeme))

advance(p) == scan_loop([p EXCEPT !.prev = p.cur])

consume(p, type, msg) == IF p.cur.type = type THEN advance(p) ELSE error_at(p, msg)

check(p, type) == p.cur.type = type

\* match: the state after it; its result is check(p, type) before it
match(p, type) == IF check(p, type) THEN advance(p) ELSE p

\* *current and current->function
Cur(p) == p.current[Len(p.current)]
CurFn(p) == p.fns[Cur(p).function]

emit_byte(p, byte) == [p EXCEPT !.fns[Cur(p).function].code = Append(@, byte)]

emit_bytes(p, byte1, byte2) == emit_byte(emit_byte(p, byte1), byte2)

emit_return(p) == emit_bytes(p, "OP_NIL", "OP_RETURN")

end_compiler(p) ==
    [emit_return(p) EXCEPT !.current = SubSeq(@, 1, Len(@) - 1), !.ret = Cur(p).function]

begin_scope(p) == [p EXCEPT !.current[Len(p.current)].scope_depth = @ + 1]

\* the loop of end_scope, scope_depth already decremented
RECURSIVE end_scope_loop(_)
end_scope_loop(p) ==
    LET locals == Cur(p).locals
        top == locals[Len(locals)]
    IN IF Len(locals) > 0 /\ top.depth > Cur(p).scope_depth
       THEN end_scope_loop(
                [emit_byte(p, IF top.is_captured THEN "OP_CLOSE_UPVALUE" ELSE "OP_POP")
                    EXCEPT !.current[Len(p.current)].locals = SubSeq(@, 1, Len(@) - 1)])
       ELSE p

end_scope(p) == end_scope_loop([p EXCEPT !.current[Len(p.current)].scope_depth = @ - 1])

\* add_constant, then the range check of make_constant
make_constant(p, val) ==
    LET q == [p EXCEPT !.fns[Cur(p).function].constants = Append(@, val)]
        constant == Len(CurFn(q).constants) - 1
    IN IF constant > UINT8_COUNT - 1
       THEN [error_at(q, "Too many constants in one chunk.") EXCEPT !.ret = 0]
       ELSE [q EXCEPT !.ret = constant]

emit_constant(p, val) ==
    With(make_constant(p, val), LAMBDA q : emit_bytes(q, "OP_CONSTANT", q.ret))

UINT16_MAX == 65535

\* emit_jump; p.ret is the offset of the operand to patch
emit_jump(p, instruction) ==
    With(emit_byte(emit_byte(emit_byte(p, instruction), 255), 255), LAMBDA q :
        [q EXCEPT !.ret = Len(CurFn(q).code) - 2])

emit_loop(p, loop_start) ==
    With(emit_byte(p, "OP_LOOP"), LAMBDA q :
        With(Len(CurFn(q).code) - loop_start + 2, LAMBDA offset :
            emit_byte(emit_byte(IF offset > UINT16_MAX THEN error_at(q, "Loop body too large.")
                                ELSE q,
                                (offset \div 256) % 256),
                      offset % 256)))

\* patch_jump that counts the two bytes of the operand into the distance
patch_jump_operand(p, offset) ==
    With(Len(CurFn(p).code) - offset, LAMBDA jump :
        [(IF jump > UINT16_MAX THEN error_at(p, "Too much code to jump over.") ELSE p)
            EXCEPT !.fns[Cur(p).function].code[offset + 1] = (jump \div 256) % 256,
                   !.fns[Cur(p).function].code[offset + 2] = jump % 256])

patch_jump(p, offset) ==
    With(Len(CurFn(p).code) - offset - 2, LAMBDA jump :
        [(IF jump > UINT16_MAX THEN error_at(p, "Too much code to jump over.") ELSE p)
            EXCEPT !.fns[Cur(p).function].code[offset + 1] = (jump \div 256) % 256,
                   !.fns[Cur(p).function].code[offset + 2] = jump % 256])

\* new_function: arity, name and the chunk are set; upvalue_count is whatever the
\* allocation held, and so are the entries of Compiler.upvalues below it (p.junk)
init_compiler(p, type) ==
    LET k == Len(p.fns) + 1
        held == IF k <= Len(p.junk) THEN p.junk[k] ELSE <<>>
        function == [name |-> IF type # "TYPE_SCRIPT" THEN p.prev.lexeme ELSE "",
                     arity |-> 0, upvalue_count |-> Len(held),
                     code |-> <<>>, constants |-> <<>>]
        compiler == [function |-> k, type |-> type, scope_depth |-> 0, upvalues |-> held,
                     locals |-> <<[name |-> IF type # "TYPE_FUNCTION" THEN "this" ELSE "",
                                   depth |-> 0, is_captured |-> FALSE]>>]
    IN [p EXCEPT !.fns = Append(@, function), !.current = Append(@, compiler),
                 !.most_locals = IF @ < 1 THEN 1 ELSE @]

NUMBER_VAL(n) == [t |-> "number", n |-> n]
STRING_VAL(s) == [t |-> "string", s |-> s]
FUNCTION_VAL(f) == [t |-> "function", f |-> f]

\* strtod on the numerals of the inputs
strtod(lexeme) ==
    CASE lexeme = "0" -> 0 [] lexeme = "1" -> 1 [] lexeme = "2" -> 2 [] OTHER -> 3

number(p) == emit_constant(p, NUMBER_VAL(strtod(p.prev.lexeme)))

\* OBJ_VAL(copy_string(name)): an interned string is its content
identifier_constant(p, name) == make_constant(p, STRING_VAL(name))

add_local(p, name) ==
    IF Len(Cur(p).locals) = UINT8_COUNT THEN error_at(p, "Too many local variables.")
    ELSE [p EXCEPT !.current[Len(p.current)].locals =
                        Append(@, [name |-> name, depth |-> -1, is_captured |-> FALSE]),
                   !.most_locals = IF @ < Len(Cur(p).locals) + 1 THEN Len(Cur(p).locals) + 1
                                   ELSE @]

declare_variable(p) ==
    LET locals == Cur(p).locals
        name == p.prev.lexeme
        outer(i) == locals[i].depth # -1 /\ locals[i].depth < Cur(p).scope_depth
        clash == \E i \in DOMAIN locals :
                    /\ locals[i].name = name
                    /\ \A j \in i..Len(locals) : ~outer(j)
    IN IF Cur(p).scope_depth = 0 THEN p
       ELSE add_local(IF clash
                      THEN error_at(p, "Already a variable with this name in this scope.")
                      ELSE p, name)

mark_initialised(p) ==
    IF Cur(p).scope_depth = 0 THEN p
    ELSE [p EXCEPT !.current[Len(p.current)].locals[Len(Cur(p).locals)].depth =
                        Cur(p).scope_depth]

define_variable(p, global) ==
    IF Cur(p).scope_depth > 0 THEN mark_initialised(p)
    ELSE emit_bytes(p, "OP_DEFINE_GLOBAL", global)

\* resolve_local_idx without its test of depth == -1
resolve_local_idx_any(p, c, name) ==
    LET locals == p.current[c].locals
        hits == {i \in DOMAIN locals : locals[i].name = name}
        i == CHOOSE h \in hits : \A j \in hits : j <= h
    IN IF hits = {} THEN [p EXCEPT !.ret = -1] ELSE [p EXCEPT !.ret = i - 1]

\* resolve_local_idx(compiler, name), compiler the c-th of the chain
resolve_local_idx(p, c, name) ==
    LET locals == p.current[c].locals
        hits == {i \in DOMAIN locals : locals[i].name = name}
        i == CHOOSE h \in hits : \A j \in hits : j <= h
    IN IF hits = {} THEN [p EXCEPT !.ret = -1]
       ELSE [(IF locals[i].depth = -1
              THEN error_at(p, "Can't read local variable in its own initializer.")
              ELSE p) EXCEPT !.ret = i - 1]

add_upvalue(p, c, index, is_local) ==
    LET f == p.current[c].function
        upvalue_count == p.fns[f].upvalue_count
        upvalues == p.current[c].upvalues
        same == {i \in 1..upvalue_count :
                    upvalues[i].index = index /\ upvalues[i].is_local = is_local}
    IN IF same # {} THEN [p EXCEPT !.ret = (CHOOSE i \in same : \A j \in same : i <= j) - 1]
       ELSE IF upvalue_count = UINT8_COUNT
       THEN [error_at(p, "Too many closure variables in function.") EXCEPT !.ret = 0]
       ELSE [p EXCEPT !.current[c].upvalues =
                            Append(@, [index |-> index, is_local |-> is_local]),
                      !.fns[f].upvalue_count = @ + 1,
                      !.ret = upvalue_count]

RECURSIVE resolve_upvalue_idx(_, _, _)
resolve_upvalue_idx(p, c, name) ==
    IF c = 1 THEN [p EXCEPT !.ret = -1]
    ELSE LET l == resolve_local_idx(p, c - 1, name)
             u == resolve_upvalue_idx(l, c - 1, name)
         IN IF l.ret # -1
            THEN add_upvalue([l EXCEPT !.current[c - 1].locals[l.ret + 1].is_captured = TRUE],
                             c, U8(l.ret), TRUE)
            ELSE IF u.ret # -1 THEN add_upvalue(u, c, U8(u.ret), FALSE)
            ELSE u

RECURSIVE parse_precedence(_, _), declaration(_), statement(_), var_declaration(_)

expression(p) == parse_precedence(p, PREC_ASSIGNMENT)

\* named_variable; p.log records what each use of a name was compiled to
named_variable(p, name, can_assign) ==
    LET c == Len(p.current)
        l == resolve_local_idx(p, c, name)
        r == IF l.ret = -1 THEN identifier_constant(l, name)
             ELSE resolve_upvalue_idx(l, c, name)
        kind == IF l.ret = -1 THEN "GLOBAL" ELSE IF r.ret # -1 THEN "UPVALUE" ELSE "LOCAL"
    IN With(r, LAMBDA s :
            With([name |-> name, locals |-> Cur(p).locals, arg |-> U8(s.ret),
                  enclosing |-> [k \in 1..(Len(p.current) - 1) |-> p.current[k].locals],
                  op |-> (IF can_assign /\ check(s, "TOKEN_EQUAL") THEN "OP_SET_" ELSE "OP_GET_")
                         \o kind],
                 LAMBDA use :
                    [emit_bytes(IF can_assign /\ check(s, "TOKEN_EQUAL")
                                THEN expression(advance(s)) ELSE s, use.op, use.arg)
                        EXCEPT !.log = Append(@, use)]))

variable(p, can_assign) == named_variable(p, p.prev.lexeme, can_assign)

grouping(p) == consume(expression(p), "TOKEN_RIGHT_PAREN", "Expect ')' after expression.")

\* the do-while of argument_list; p.ret counts the arguments
RECURSIVE arguments(_)
arguments(p) ==
    With(expression(p), LAMBDA e :
        With([(IF p.ret = 255 THEN error_at(e, "Can't have more than 255 arguments.") ELSE e)
                 EXCEPT !.ret = U8(p.ret + 1)],
             LAMBDA q : IF check(q, "TOKEN_COMMA") THEN arguments(advance(q)) ELSE q))

argument_list(p) ==
    With(IF check(p, "TOKEN_RIGHT_PAREN") THEN [p EXCEPT !.ret = 0]
         ELSE arguments([p EXCEPT !.ret = 0]),
         LAMBDA q : [consume(q, "TOKEN_RIGHT_PAREN", "Expect ')' after arguments.")
                        EXCEPT !.ret = q.ret])

call_(p) == With(argument_list(p), LAMBDA q : emit_bytes(q, "OP_CALL", q.ret))

this_(p) ==
    IF p.current_class = 0 THEN error_at(p, "Can't use 'this' outside of a class.")
    ELSE variable(p, FALSE)

dot(p, can_assign) ==
    With(consume(p, "TOKEN_IDENTIFIER", "Expect property name after '.'."), LAMBDA c :
        With(identifier_constant(c, c.prev.lexeme), LAMBDA n :
            IF can_assign /\ check(n, "TOKEN_EQUAL")
            THEN emit_bytes(expression(advance(n)), "OP_SET_PROPERTY", n.ret)
            ELSE emit_bytes(n, "OP_GET_PROPERTY", n.ret)))

literal(p) ==
    CASE p.prev.type = "TOKEN_FALSE" -> emit_byte(p, "OP_FALSE")
      [] p.prev.type = "TOKEN_NIL" -> emit_byte(p, "OP_NIL")
      [] p.prev.type = "TOKEN_TRUE" -> emit_byte(p, "OP_TRUE")
      [] OTHER -> p

\* copy_string(parser.prev.start + 1, parser.prev.len - 2)
string(p) == emit_constant(p, STRING_VAL(StringLiterals[p.prev.lexeme]))

\* rules[]: the rows of the token types the inputs use; every other row is {NULL, NULL, PREC_NONE}
get_rule(type) ==
    CASE type = "TOKEN_LEFT_PAREN" ->
            [prefix |-> "grouping", infix |-> "call", precedence |-> PREC_CALL]
      [] type = "TOKEN_DOT" ->
            [prefix |-> "NULL", infix |-> "dot", precedence |-> PREC_CALL]
      [] type = "TOKEN_MINUS" ->
            [prefix |-> "unary", infix |-> "binary", precedence |-> PREC_TERM]
      [] type = "TOKEN_PLUS" ->
            [prefix |-> "NULL", infix |-> "binary", precedence |-> PREC_TERM]
      [] type = "TOKEN_BANG" ->
            [prefix |-> "unary", infix |-> "NULL", precedence |-> PREC_NONE]
      [] type = "TOKEN_EQUAL_EQUAL" ->
            [prefix |-> "NULL", infix |-> "binary", precedence |-> PREC_EQUALITY]
      [] type = "TOKEN_STAR" ->
            [prefix |-> "NULL", infix |-> "binary", precedence |-> PREC_FACTOR]
      [] type = "TOKEN_AND" ->
            [prefix |-> "NULL", infix |-> "and_", precedence |-> PREC_NONE]
      [] type = "TOKEN_OR" ->
            [prefix |-> "NULL", infix |-> "or_", precedence |-> PREC_NONE]
      [] type = "TOKEN_STRING" ->
            [prefix |-> "string", infix |-> "NULL", precedence |-> PREC_NONE]
      [] type \in {"TOKEN_FALSE", "TOKEN_NIL", "TOKEN_TRUE"} ->
            [prefix |-> "literal", infix |-> "NULL", precedence |-> PREC_NONE]
      [] type = "TOKEN_THIS" ->
            [prefix |-> "this_", infix |-> "NULL", precedence |-> PREC_NONE]
      [] type = "TOKEN_IDENTIFIER" ->
            [prefix |-> "variable", infix |-> "NULL", precedence |-> PREC_NONE]
      [] type = "TOKEN_NUMBER" ->
            [prefix |-> "number", infix |-> "NULL", precedence |-> PREC_NONE]
      [] OTHER -> [prefix |-> "NULL", infix |-> "NULL", precedence |-> PREC_NONE]

binary(p) ==
    With(parse_precedence(p, get_rule(p.prev.type).precedence + 1),
         LAMBDA q : CASE p.prev.type = "TOKEN_EQUAL_EQUAL" -> emit_byte(q, "OP_EQUAL")
                      [] p.prev.type = "TOKEN_PLUS" -> emit_byte(q, "OP_ADD")
                      [] p.prev.type = "TOKEN_MINUS" -> emit_byte(q, "OP_SUBTRACT")
                      [] p.prev.type = "TOKEN_STAR" -> emit_byte(q, "OP_MULTIPLY")
                      [] OTHER -> q)

\* unary: the operand, then the operator's instruction
unary(p) ==
    With(parse_precedence(p, PREC_ASSIGNMENT),
         LAMBDA q : CASE p.prev.type = "TOKEN_MINUS" -> emit_byte(q, "OP_NEGATE")
                      [] p.prev.type = "TOKEN_BANG" -> emit_byte(q, "OP_NOT")
                      [] OTHER -> q)

and_(p) ==
    With(emit_jump(p, "OP_JUMP_IF_FALSE"), LAMBDA j :
        patch_jump(parse_precedence(emit_byte(j, "OP_POP"), PREC_AND), j.ret))

or_(p) ==
    With(emit_jump(p, "OP_JUMP_IF_FALSE"), LAMBDA else_jump :
        With(emit_jump(else_jump, "OP_JUMP"), LAMBDA end_jump :
            patch_jump(parse_precedence(emit_byte(patch_jump(end_jump, else_jump.ret), "OP_POP"),
                                        PREC_OR),
                       end_jump.ret)))

\* a call through a ParseFn pointer
ParseFn(p, fn, can_assign) ==
    CASE fn = "grouping" -> grouping(p)
      [] fn = "call" -> call_(p)
      [] fn = "binary" -> binary(p)
      [] fn = "unary" -> unary(p)
      [] fn = "and_" -> and_(p)
      [] fn = "or_" -> or_(p)
      [] fn = "variable" -> variable(p, can_assign)
      [] fn = "number" -> number(p)
      [] fn = "string" -> string(p)
      [] fn = "literal" -> literal(p)
      [] fn = "this_" -> this_(p)
      [] fn = "dot" -> dot(p, can_assign)

\* the while loop of parse_precedence
RECURSIVE infix_rules(_, _, _)
infix_rules(p, precedence, can_assign) ==
    IF precedence <= get_rule(p.cur.type).precedence
    THEN infix_rules(With(advance(p), LAMBDA a :
                            ParseFn(a, get_rule(a.prev.type).infix, can_assign)),
                     precedence, can_assign)
    ELSE p

parse_precedence(p, precedence) ==
    With(advance(p), LAMBDA a :
        IF get_rule(a.prev.type).prefix = "NULL" THEN error_at(a, "Expect expression.")
        ELSE With(infix_rules(ParseFn(a, get_rule(a.prev.type).prefix,
                                      precedence <= PREC_ASSIGNMENT),
                              precedence, precedence <= PREC_ASSIGNMENT),
                  LAMBDA q : IF precedence <= PREC_ASSIGNMENT /\ check(q, "TOKEN_EQUAL")
                             THEN error_at(advance(q), "Invalid assignment target.")
                             ELSE q))

\* the number of iterations of the loop of block that are evaluated as one recursion
BlockChunk == 16

\* the while loop of block, at most n iterations of it
RECURSIVE block_chunk(_, _)
block_chunk(p, n) ==
    IF p.cur.type \notin {"TOKEN_RIGHT_BRACE", "TOKEN_EOF"} /\ n > 0
    THEN block_chunk(declaration(p), n - 1) ELSE p

\* the while loop of block, BlockChunk iterations at a time: a recursion as deep as a block
\* of 255 declarations does not fit the stack TLC evaluates it on
RECURSIVE block_loop(_)
block_loop(p) ==
    IF p.cur.type \notin {"TOKEN_RIGHT_BRACE", "TOKEN_EOF"}
    THEN block_loop(block_chunk(p, BlockChunk)) ELSE p

block(p) == consume(block_loop(p), "TOKEN_RIGHT_BRACE", "Expect '}' after block.")

\* expression_statement that leaves the value of the expression on the stack
expression_statement_keep(p) ==
    consume(expression(p), "TOKEN_SEMICOLON", "Expect ';' after expression.")

expression_statement(p) ==
    emit_byte(consume(expression(p), "TOKEN_SEMICOLON", "Expect ';' after expression."),
              "OP_POP")

print_statement(p) ==
    emit_byte(consume(expression(p), "TOKEN_SEMICOLON", "Expect ';' after value."),
              "OP_PRINT")

return_statement(p) ==
    IF Cur(p).type = "TYPE_SCRIPT" THEN error_at(p, "Can't return from top-level code.")
    ELSE IF check(p, "TOKEN_SEMICOLON") THEN emit_return(advance(p))
    ELSE emit_byte(consume(expression(p), "TOKEN_SEMICOLON",
                           "Expect ';' after return value."), "OP_RETURN")

\* p.stmts records, for a point of the code where a statement starts or ends or a loop
\* iterates, the number of locals the function being compiled has in scope there
at(p, kind) ==
    [p EXCEPT !.stmts = Append(@, [function |-> Cur(p).function, kind |-> kind,
                                   offset |-> Len(CurFn(p).code),
                                   local_count |-> Len(Cur(p).locals)])]

while_statement(p) ==
    With(Len(CurFn(p).code), LAMBDA loop_start :
        With(emit_jump(consume(expression(consume(at(at(p, "start"), "loop"),
                                                  "TOKEN_LEFT_PAREN", "Expect '(' after 'while'.")),
                               "TOKEN_RIGHT_PAREN", "Expect ')' after condition."),
                       "OP_JUMP_IF_FALSE"),
             LAMBDA e :
                at(emit_byte(patch_jump(emit_loop(statement(emit_byte(e, "OP_POP")), loop_start),
                                        e.ret),
                             "OP_POP"),
                   "end")))

\* for_statement from the increment clause on
for_body(p, loop_start, exit_jump) ==
    With(IF check(p, "TOKEN_RIGHT_PAREN") THEN [advance(p) EXCEPT !.ret = loop_start]
         ELSE With(emit_jump(p, "OP_JUMP"), LAMBDA b :
                With(Len(CurFn(b).code), LAMBDA increment_start :
                    [patch_jump(emit_loop(consume(emit_byte(expression(at(b, "loop")), "OP_POP"),
                                                  "TOKEN_RIGHT_PAREN",
                                                  "Expect ')' after for clauses."),
                                          loop_start),
                                b.ret)
                        EXCEPT !.ret = increment_start])),
         LAMBDA i :
            With(emit_loop(statement(i), i.ret), LAMBDA l :
                IF exit_jump # -1 THEN emit_byte(patch_jump(l, exit_jump), "OP_POP") ELSE l))

for_statement(p) ==
    With(consume(begin_scope(at(p, "start")), "TOKEN_LEFT_PAREN", "Expect '(' after 'for'."),
         LAMBDA c :
            With(IF check(c, "TOKEN_SEMICOLON") THEN advance(c)
                 ELSE IF check(c, "TOKEN_VAR") THEN var_declaration(advance(c))
                 ELSE expression_statement(c),
                 LAMBDA init :
                    With(Len(CurFn(init).code), LAMBDA loop_start :
                        at(end_scope(
                            IF check(init, "TOKEN_SEMICOLON")
                            THEN for_body(advance(at(init, "loop")), loop_start, -1)
                            ELSE With(emit_jump(consume(expression(at(init, "loop")),
                                                        "TOKEN_SEMICOLON",
                                                        "Expect ';' after loop condition."),
                                                "OP_JUMP_IF_FALSE"),
                                      LAMBDA e : for_body(emit_byte(e, "OP_POP"), loop_start,
                                                          e.ret))),
                           "end"))))

\* if_statement without the OP_POP that discards the condition before the then branch
if_statement_keep(p) ==
    With(emit_jump(consume(expression(consume(at(p, "start"), "TOKEN_LEFT_PAREN",
                                              "Expect '(' after 'if'.")),
                           "TOKEN_RIGHT_PAREN", "Expect ')' after condition."),
                   "OP_JUMP_IF_FALSE"),
         LAMBDA then_jump :
            With(emit_jump(statement(then_jump), "OP_JUMP"),
                 LAMBDA else_jump :
                    With(emit_byte(patch_jump(else_jump, then_jump.ret), "OP_POP"), LAMBDA q :
                        at(patch_jump(IF check(q, "TOKEN_ELSE") THEN statement(advance(q))
                                      ELSE q,
                                      else_jump.ret),
                           "end"))))

if_statement(p) ==
    With(emit_jump(consume(expression(consume(at(p, "start"), "TOKEN_LEFT_PAREN",
                                              "Expect '(' after 'if'.")),
                           "TOKEN_RIGHT_PAREN", "Expect ')' after condition."),
                   "OP_JUMP_IF_FALSE"),
         LAMBDA then_jump :
            With(emit_jump(statement(emit_byte(then_jump, "OP_POP")), "OP_JUMP"),
                 LAMBDA else_jump :
                    With(emit_byte(patch_jump(else_jump, then_jump.ret), "OP_POP"), LAMBDA q :
                        at(patch_jump(IF check(q, "TOKEN_ELSE") THEN statement(advance(q))
                                      ELSE q,
                                      else_jump.ret),
                           "end"))))

statement(p) ==
    CASE check(p, "TOKEN_PRINT") -> print_statement(advance(p))
      [] check(p, "TOKEN_IF") -> if_statement(advance(p))
      [] check(p, "TOKEN_RETURN") -> return_statement(advance(p))
      [] check(p, "TOKEN_WHILE") -> while_statement(advance(p))
      [] check(p, "TOKEN_FOR") -> for_statement(advance(p))
      [] check(p, "TOKEN_LEFT_BRACE") -> With(block(begin_scope(advance(p))), end_scope)
      [] OTHER -> expression_statement(p)

\* the while loop of sync, panic_mode already cleared
RECURSIVE sync_loop(_)
sync_loop(p) ==
    IF p.cur.type = "TOKEN_EOF" \/ p.prev.type = "TOKEN_SEMICOLON"
       \/ p.cur.type \in {"TOKEN_CLASS", "TOKEN_FUN", "TOKEN_VAR", "TOKEN_FOR", "TOKEN_IF",
                          "TOKEN_WHILE", "TOKEN_PRINT", "TOKEN_RETURN"}
    THEN p ELSE sync_loop(advance(p))

\* sync; the trail notes its return, with had_error and panic_mode as they are then
sync(p) ==
    With(sync_loop([p EXCEPT !.panic_mode = FALSE]), LAMBDA q :
        [q EXCEPT !.trail = Append(@, [event |-> "sync", had_error |-> q.had_error,
                                       panic_mode |-> q.panic_mode])])

parse_variable(p, err_msg) ==
    With(declare_variable(consume(p, "TOKEN_IDENTIFIER", err_msg)), LAMBDA q :
        IF Cur(q).scope_depth > 0 THEN [q EXCEPT !.ret = 0]
        ELSE identifier_constant(q, q.prev.lexeme))

var_declaration(p) ==
    With(parse_variable(p, "Expect variable name."), LAMBDA v :
        define_variable(
            consume(IF check(v, "TOKEN_EQUAL") THEN expression(advance(v))
                    ELSE emit_byte(v, "OP_NIL"),
                    "TOKEN_SEMICOLON", "Expect ';' after variable declaration."),
            v.ret))

\* the do-while over the parameters of function
RECURSIVE parameters(_)
parameters(p) ==
    With(parse_variable(
            With([p EXCEPT !.fns[Cur(p).function].arity = @ + 1], LAMBDA a :
                IF CurFn(a).arity > 255
                THEN error_at(a, "Can't have more than 255 parameters.") ELSE a),
            "Expect parameter name."),
         LAMBDA v : With(define_variable(v, v.ret), LAMBDA d :
                        IF check(d, "TOKEN_COMMA") THEN parameters(advance(d)) ELSE d))

\* the loop of function that emits the (is_local, index) pairs
RECURSIVE emit_upvalues(_, _, _)
emit_upvalues(p, upvalues, i) ==
    IF i > Len(upvalues) THEN p
    ELSE emit_upvalues(emit_bytes(p, IF upvalues[i].is_local THEN 1 ELSE 0, upvalues[i].index),
                       upvalues, i + 1)

function(p, type) ==
    With(block(consume(consume(
                With(consume(begin_scope(init_compiler(p, type)),
                             "TOKEN_LEFT_PAREN", "Expect '(' after function name."),
                     LAMBDA a : IF ~check(a, "TOKEN_RIGHT_PAREN") THEN parameters(a) ELSE a),
                "TOKEN_RIGHT_PAREN", "Expect ')' after parameters."),
                "TOKEN_LEFT_BRACE", "Expect '{' before function body.")),
         LAMBDA d :
            With(make_constant(end_compiler(d), FUNCTION_VAL(Cur(d).function)), LAMBDA e :
                emit_upvalues(emit_bytes(e, "OP_CLOSURE", e.ret), Cur(d).upvalues, 1)))

method(p) ==
    With(consume(p, "TOKEN_IDENTIFIER", "Expect method name."), LAMBDA c :
        With(identifier_constant(c, c.prev.lexeme), LAMBDA n :
            emit_bytes(function(n, "TYPE_METHOD"), "OP_METHOD", n.ret)))

\* the while loop of class_declaration
RECURSIVE methods(_)
methods(p) ==
    IF ~check(p, "TOKEN_RIGHT_BRACE") /\ ~check(p, "TOKEN_EOF") THEN methods(method(p)) ELSE p

class_declaration(p) ==
    With(consume(p, "TOKEN_IDENTIFIER", "Expect class name."), LAMBDA c :
        With(identifier_constant(c, c.prev.lexeme), LAMBDA n :
            With(define_variable(emit_bytes(declare_variable(n), "OP_CLASS", n.ret), n.ret),
                 LAMBDA d :
                    With(methods(consume(named_variable([d EXCEPT !.current_class = @ + 1],
                                                        c.prev.lexeme, FALSE),
                                         "TOKEN_LEFT_BRACE", "Expect '{' before class body.")),
                         LAMBDA m :
                            [emit_byte(consume(m, "TOKEN_RIGHT_BRACE",
                                               "Expect '}' after class body."), "OP_POP")
                                EXCEPT !.current_class = @ - 1]))))

fun_declaration(p) ==
    With(parse_variable(p, "Expect function name."), LAMBDA v :
        With(function(mark_initialised(v), "TYPE_FUNCTION"), LAMBDA f :
            define_variable(f, v.ret)))

declaration(p) ==
    With(CASE check(p, "TOKEN_CLASS") -> class_declaration(advance(p))
           [] check(p, "TOKEN_FUN") -> fun_declaration(advance(p))
           [] check(p, "TOKEN_VAR") -> var_declaration(advance(p))
           [] OTHER -> statement(p),
         LAMBDA q : IF q.panic_mode THEN sync(q) ELSE q)

\* the while loop of compile
RECURSIVE declarations(_)
declarations(p) == IF check(p, "TOKEN_EOF") THEN advance(p) ELSE declarations(declaration(p))

\* compile: p.ret is the script's ObjFunction, NULL after a compile error; `before` holds
\* the functions that earlier calls of compile created
compile(toks, held, before) ==
    With(declarations(advance(init_compiler(
            [toks |-> toks, pos |-> 1, prev |-> Token(""), cur |-> Token(""),
             had_error |-> FALSE, panic_mode |-> FALSE, errors |-> before.errors,
                  trail |-> <<>>, most_locals |-> 0,
             current |-> <<>>, current_class |-> 0, fns |-> before.fns, junk |-> held,
             log |-> before.log, stmts |-> before.stmts, ret |-> NULL],
            "TYPE_SCRIPT"))),
         LAMBDA d : With(end_compiler(d), LAMBDA q :
                        [q EXCEPT !.ret = IF q.had_error THEN NULL ELSE q.ret]))

\* ======================================================================
\* The virtual machine (debug.c, lines 164-701) executing what compile
\* emitted.  No collection runs here: SpecGC is the model of the collector.
\* ======================================================================
FRAMES_MAX == 64
STACK_MAX == FRAMES_MAX * UINT8_COUNT

BOOL_VAL(b) == [t |-> "bool", b |-> b]
\* a Value of all-zero bytes, what a slot of the static vm.stack holds before its first write
ZERO_VAL == [t |-> "zero"]

IS_NUMBER(v) == v.t = "number"
IS_STRING(v) == v.t = "string"

\* vm.stack[i - 1]: slots are numbered from 1, as in SpecGC, and kept once written, the
\* discarded ones included.  The stack is held as the highest slot written, `hw`, and
\* the slots up to it that do not hold nil, `vals`
Slot(m, i) ==
    IF i \in DOMAIN m.stack.vals THEN m.stack.vals[i]
    ELSE IF i <= m.stack.hw THEN NIL_VAL
    ELSE ZERO_VAL
Store(m, i, value) ==
    LET s == m.stack
        held == (DOMAIN s.vals \cup ((s.hw + 1)..i) \cup {i})
                   \ (IF value = NIL_VAL THEN {i} ELSE {})
    IN [m EXCEPT !.stack = [hw |-> IF i > s.hw THEN i ELSE s.hw,
                            vals |-> [j \in held |-> IF j = i THEN value
                                                     ELSE IF j \in DOMAIN s.vals THEN s.vals[j]
                                                     ELSE ZERO_VAL]]]

\* the state once the program has written or dereferenced outside every object
undefined(m) == [m EXCEPT !.status = "undefined"]

\* push; vm.stack has STACK_MAX slots and push does not compare stack_top with its end
push(m, value) ==
    IF m.stack_top < STACK_MAX THEN [Store(m, m.stack_top + 1, value) EXCEPT !.stack_top = @ + 1]
    ELSE undefined([m EXCEPT !.stack_top = @ + 1])

\* pop: the state after it; its result is peek(m, 0) before it
pop(m) == [m EXCEPT !.stack_top = @ - 1]

peek(m, distance) == Slot(m, m.stack_top - distance)

reset_stack(m) == [m EXCEPT !.stack_top = 0, !.frames = <<>>, !.open_upvalues = <<>>]

\* runtime_error without its call of reset_stack
runtime_error_no_reset(m, msg) ==
    [m EXCEPT !.stderr = Append(@, msg), !.status = "INTERPRET_RUNTIME_ERROR"]

\* runtime_error; every caller then returns INTERPRET_RUNTIME_ERROR
runtime_error(m, msg) ==
    [reset_stack(m) EXCEPT !.stderr = Append(@, msg), !.status = "INTERPRET_RUNTIME_ERROR"]

\* table_set, its result aside (is_new_key is key \notin Keys(t) before it)
table_set(t, key, value, reuse) ==
    table_store(IF table_needs_growth(t) THEN adjust_capacity(t, GROW_CAPACITY(t.cap)) ELSE t,
                key, value, reuse)

\* what find_entry can return for a key the table does not hold: a tombstone only when
\* table_set does not rebuild the table and one is left (the hash order is not modelled)
Tombstone(t) ==
    IF ~table_needs_growth(t) /\ t.len > Cardinality(Keys(t)) THEN BOOLEAN ELSE {FALSE}

\* call with the test for FRAMES_MAX one frame late
call_closure_late(m, closure, arg_count) ==
    LET fn == compiled.fns[m.objects[closure].function]
    IN IF arg_count # fn.arity THEN runtime_error(m, "Expected %d arguments but got %d.")
       ELSE IF Len(m.frames) > FRAMES_MAX THEN runtime_error(m, "Stack overflow.")
       ELSE [m EXCEPT !.frames = Append(@, [closure |-> closure, ip |-> 1,
                                            slots |-> m.stack_top - arg_count])]

call_closure(m, closure, arg_count) ==
    LET fn == compiled.fns[m.objects[closure].function]
    IN IF arg_count # fn.arity THEN runtime_error(m, "Expected %d arguments but got %d.")
       ELSE IF Len(m.frames) = FRAMES_MAX THEN runtime_error(m, "Stack overflow.")
       ELSE [m EXCEPT !.frames = Append(@, [closure |-> closure, ip |-> 1,
                                            slots |-> m.stack_top - arg_count])]

\* vm.init_string: an interned string is its content
init_string == "init"

call_value(m, callee, arg_count) ==
    IF IS_OBJ(callee) /\ m.objects[AS_OBJ(callee)].type = "bound_method"
    THEN call_closure(Store(m, m.stack_top - arg_count, m.objects[AS_OBJ(callee)].receiver),
                      m.objects[AS_OBJ(callee)].method, arg_count)
    ELSE IF IS_OBJ(callee) /\ m.objects[AS_OBJ(callee)].type = "class"
    THEN With(Store([m EXCEPT !.objects = Append(@, ObjInstance(AS_OBJ(callee)))],
                    m.stack_top - arg_count, OBJ_VAL(Len(m.objects) + 1)),
              LAMBDA i :
                 IF init_string \in Keys(m.objects[AS_OBJ(callee)].methods)
                 THEN call_closure(i, AS_OBJ(m.objects[AS_OBJ(callee)].methods.map[init_string]),
                                   arg_count)
                 ELSE IF arg_count # 0 THEN runtime_error(i, "Expected 0 arguments but got %d.")
                 ELSE i)
    ELSE IF IS_OBJ(callee) /\ m.objects[AS_OBJ(callee)].type = "closure"
    THEN call_closure(m, AS_OBJ(callee), arg_count)
    ELSE IF IS_OBJ(callee) /\ m.objects[AS_OBJ(callee)].type = "native"
    THEN push([m EXCEPT !.stack_top = @ - (arg_count + 1)], NUMBER_VAL(0))
    ELSE runtime_error(m, "Can only call functions and classes.")

\* the open upvalues that the loop of capture_upvalue walks past
walked(m, local) ==
    Cardinality({k \in DOMAIN m.open_upvalues :
                    \A j \in 1..k : m.objects[m.open_upvalues[j]].location > local})

\* capture_upvalue without the test for an existing open upvalue
capture_upvalue_always_new(m, local) ==
    LET list == m.open_upvalues
        n == walked(m, local)
        created_upvalue == Len(m.objects) + 1
    IN [m EXCEPT !.objects = Append(@, ObjUpvalue(local)),
                 !.open_upvalues = SubSeq(list, 1, n) \o <<created_upvalue>>
                                   \o SubSeq(list, n + 1, Len(list)),
                 !.ret = created_upvalue]

\* capture_upvalue; m.ret is the upvalue returned
capture_upvalue(m, local) ==
    LET list == m.open_upvalues
        n == walked(m, local)
        created_upvalue == Len(m.objects) + 1
    IN IF n < Len(list) /\ m.objects[list[n + 1]].location = local
       THEN [m EXCEPT !.ret = list[n + 1]]
       ELSE [m EXCEPT !.objects = Append(@, ObjUpvalue(local)),
                      !.open_upvalues = SubSeq(list, 1, n) \o <<created_upvalue>>
                                        \o SubSeq(list, n + 1, Len(list)),
                      !.ret = created_upvalue]

\* the loop of close_upvalues stopping at location > last
closed_by_above(m, last) ==
    Cardinality({k \in DOMAIN m.open_upvalues :
                    \A j \in 1..k : m.objects[m.open_upvalues[j]].location > last})

\* the open upvalues that the loop of close_upvalues closes
closed_by(m, last) ==
    Cardinality({k \in DOMAIN m.open_upvalues :
                    \A j \in 1..k : m.objects[m.open_upvalues[j]].location >= last})

\* close_upvalues; NULL is the location of a closed upvalue (location == &closed)
close_upvalues(m, last) ==
    LET list == m.open_upvalues
        n == closed_by(m, last)
    IN [m EXCEPT !.objects = [o \in DOMAIN m.objects |->
                                IF \E k \in 1..n : list[k] = o
                                THEN [m.objects[o] EXCEPT !.location = NULL,
                                                          !.closed = Slot(m, m.objects[o].location)]
                                ELSE m.objects[o]],
                 !.open_upvalues = SubSeq(list, n + 1, Len(list))]

\* *upvalue->location
deref(m, upvalue) ==
    IF m.objects[upvalue].location # NULL THEN Slot(m, m.objects[upvalue].location)
    ELSE m.objects[upvalue].closed

\* bind_method that leaves the receiver under the bound method
bind_method_push(m, klass, name) ==
    IF name \notin Keys(m.objects[klass].methods)
    THEN runtime_error(m, "Undefined property '%s'.")
    ELSE push([m EXCEPT !.objects =
                  Append(@, ObjBoundMethod(peek(m, 0),
                                           AS_OBJ(m.objects[klass].methods.map[name])))],
              OBJ_VAL(Len(m.objects) + 1))

\* bind_method: the receiver on top of the stack is replaced by the bound method
bind_method(m, klass, name) ==
    IF name \notin Keys(m.objects[klass].methods)
    THEN runtime_error(m, "Undefined property '%s'.")
    ELSE push(pop([m EXCEPT !.objects =
                      Append(@, ObjBoundMethod(peek(m, 0),
                                               AS_OBJ(m.objects[klass].methods.map[name])))]),
              OBJ_VAL(Len(m.objects) + 1))

\* defineMethod; AS_CLASS(peek(1)) is not preceded by a test of the value's type
defineMethod(m, name) ==
    IF IS_OBJ(peek(m, 1)) /\ m.objects[AS_OBJ(peek(m, 1))].type = "class"
    THEN pop([m EXCEPT !.objects[AS_OBJ(peek(m, 1))].methods =
                            table_set(@, name, peek(m, 0), FALSE)])
    ELSE undefined(m)

IS_INSTANCE(m, value) == IS_OBJ(value) /\ m.objects[AS_OBJ(value)].type = "instance"

is_falsey(value) == value.t \in {"nil", "zero"} \/ (value.t = "bool" /\ ~value.b)

\* init_vm: an empty stack, and clock the one global
init_vm ==
    [stack |-> [hw |-> 0, vals |-> <<>>], stack_top |-> 0, frames |-> <<>>, open_upvalues |-> <<>>,
     objects |-> <<ObjNative>>, globals |-> table_set(EmptyTable, "clock", OBJ_VAL(1), FALSE),
     stderr |-> <<>>, status |-> "boot", ret |-> NULL]

\* ------------------------------------------------------------- run
\* frame, the chunk it executes, and the READ_ macros at frame->ip
frame == vm.frames[Len(vm.frames)]
chunk == compiled.fns[vm.objects[frame.closure].function]
READ_BYTE(k) == chunk.code[frame.ip + k]
READ_CONSTANT == chunk.constants[READ_BYTE(1) + 1]
READ_STRING == READ_CONSTANT.s
READ_SHORT == READ_BYTE(1) * 256 + READ_BYTE(2)

\* the switch of run is at `case op`
Dispatch(op) == vm.status = "run" /\ READ_BYTE(0) = op

\* vm once the instruction and its operands, n bytes, are read
Read(n) == [vm EXCEPT !.frames[Len(vm.frames)].ip = @ + n]

Quiet == UNCHANGED <<gcvars, unitvars, source, junk, compiled, stdout>>

\* the lines of which one follows the program in a session
Followup == <<"var", "x", "=", "1", ";", "print", "x", ";", "{", "var", "t", ";", "}">>
Again == <<"print", "z", ";">>
\* a line with two errors, the second one the scanner's, met while sync skips tokens
Garbled == <<"1", "1", Stray, "2", ";">>
\* a call of a method of the class that Properties left in the globals
Later == <<"print", "a", ".", "m", "(", ")", ";">>
Followups == {Followup, Again, Garbled, Later}

Finished == vm.status \in {"INTERPRET_OK", "INTERPRET_COMPILE_ERROR", "INTERPRET_RUNTIME_ERROR"}

\* interpret with push(OBJ_VAL(function)) moved before the test of function == NULL
interpret_push ==
    \E line \in IF vm.status = "boot" THEN {source}
                ELSE IF Finished /\ source \notin Followups THEN Followups ELSE {} :
    /\ source' = line
    /\ With(compile(line, junk, compiled), LAMBDA p :
        /\ compiled' = [fns |-> p.fns, errors |-> p.errors, log |-> p.log,
                        stmts |-> p.stmts, trail |-> p.trail, had_error |-> p.had_error,
                        most_locals |-> p.most_locals]
        /\ vm' = IF p.ret = NULL THEN [push(vm, NIL_VAL) EXCEPT !.status = "INTERPRET_COMPILE_ERROR"]
                 ELSE [push([vm EXCEPT !.objects =
                                Append(@, ObjClosure(p.ret, p.fns[p.ret].upvalue_count))],
                            OBJ_VAL(Len(vm.objects) + 1))
                         EXCEPT !.frames = Append(@, [closure |-> Len(vm.objects) + 1, ip |-> 1,
                                                      slots |-> vm.stack_top + 1]),
                                !.status = "run"])
    /\ UNCHANGED <<gcvars, unitvars, junk, stdout>>

\* interpret up to run(): compile, the closure of the script, call(closure, 0), whose two
\* tests pass (arity 0, no frame left by the call before).  main calls interpret once
\* for a file and once per line for a session: the session modelled is `source`, then
\* a line of Followups
interpret ==
    \E line \in IF vm.status = "boot" THEN {source}
                ELSE IF Finished /\ source \notin Followups THEN Followups ELSE {} :
    /\ source' = line
    /\ With(compile(line, junk, compiled), LAMBDA p :
        /\ compiled' = [fns |-> p.fns, errors |-> p.errors, log |-> p.log,
                        stmts |-> p.stmts, trail |-> p.trail, had_error |-> p.had_error,
                        most_locals |-> p.most_locals]
        /\ vm' = IF p.ret = NULL THEN [vm EXCEPT !.status = "INTERPRET_COMPILE_ERROR"]
                 ELSE [push([vm EXCEPT !.objects =
                                Append(@, ObjClosure(p.ret, p.fns[p.ret].upvalue_count))],
                            OBJ_VAL(Len(vm.objects) + 1))
                         EXCEPT !.frames = Append(@, [closure |-> Len(vm.objects) + 1, ip |-> 1,
                                                      slots |-> vm.stack_top + 1]),
                                !.status = "run"])
    /\ UNCHANGED <<gcvars, unitvars, junk, stdout>>

OP_CONSTANT ==
    /\ Dispatch("OP_CONSTANT")
    /\ vm' = push(Read(2), READ_CONSTANT)
    /\ stdout' = Append(stdout, READ_CONSTANT)
    /\ UNCHANGED <<gcvars, unitvars, source, junk, compiled>>

OP_NIL ==
    /\ Dispatch("OP_NIL")
    /\ vm' = push(Read(1), NIL_VAL)
    /\ Quiet

OP_TRUE ==
    /\ Dispatch("OP_TRUE")
    /\ vm' = push(Read(1), BOOL_VAL(TRUE))
    /\ Quiet

OP_FALSE ==
    /\ Dispatch("OP_FALSE")
    /\ vm' = push(Read(1), BOOL_VAL(FALSE))
    /\ Quiet

OP_POP ==
    /\ Dispatch("OP_POP")
    /\ vm' = pop(Read(1))
    /\ Quiet

OP_GET_LOCAL ==
    /\ Dispatch("OP_GET_LOCAL")
    /\ vm' = push(Read(2), Slot(vm, frame.slots + READ_BYTE(1)))
    /\ Quiet

OP_SET_LOCAL ==
    /\ Dispatch("OP_SET_LOCAL")
    /\ vm' = Store(Read(2), frame.slots + READ_BYTE(1), peek(vm, 0))
    /\ Quiet

OP_GET_GLOBAL ==
    /\ Dispatch("OP_GET_GLOBAL")
    /\ vm' = IF READ_STRING \in Keys(vm.globals)
             THEN push(Read(2), vm.globals.map[READ_STRING])
             ELSE runtime_error(Read(2), "Undefined variable '%s'.")
    /\ Quiet

OP_DEFINE_GLOBAL ==
    /\ Dispatch("OP_DEFINE_GLOBAL")
    /\ \E reuse \in Tombstone(vm.globals) :
          vm' = pop([Read(2) EXCEPT !.globals = table_set(@, READ_STRING, peek(vm, 0), reuse)])
    /\ Quiet

\* table_set first; on a new key table_delete takes the entry out again
OP_SET_GLOBAL ==
    /\ Dispatch("OP_SET_GLOBAL")
    /\ \E reuse \in Tombstone(vm.globals) :
          vm' = With([Read(2) EXCEPT !.globals = table_set(@, READ_STRING, peek(vm, 0), reuse)],
                     LAMBDA m :
                        IF READ_STRING \notin Keys(vm.globals)
                        THEN runtime_error([m EXCEPT !.globals = table_delete(@, READ_STRING)],
                                           "Undefined variable '%s'.")
                        ELSE m)
    /\ Quiet

\* the one upvalue a function that can be called reads is `this`, and `this` is never
\* assigned: no program reaches OP_SET_UPVALUE
OP_GET_UPVALUE ==
    /\ Dispatch("OP_GET_UPVALUE")
    /\ vm' = push(Read(2), deref(vm, vm.objects[frame.closure].upvalues[READ_BYTE(1) + 1]))
    /\ Quiet

OP_GET_PROPERTY ==
    /\ Dispatch("OP_GET_PROPERTY")
    /\ vm' = IF ~IS_INSTANCE(vm, peek(vm, 0))
             THEN runtime_error(Read(1), "Only instances can have properties.")
             ELSE With(vm.objects[AS_OBJ(peek(vm, 0))], LAMBDA instance :
                    IF READ_STRING \in Keys(instance.fields)
                    THEN push(pop(Read(2)), instance.fields.map[READ_STRING])
                    ELSE bind_method(Read(2), instance.klass, READ_STRING))
    /\ Quiet

OP_SET_PROPERTY ==
    /\ Dispatch("OP_SET_PROPERTY")
    /\ vm' = IF ~IS_INSTANCE(vm, peek(vm, 1))
             THEN runtime_error(Read(1), "Only instances can have fields.")
             ELSE push(pop(pop([Read(2) EXCEPT !.objects[AS_OBJ(peek(vm, 1))].fields =
                                    table_set(@, READ_STRING, peek(vm, 0), FALSE)])),
                       peek(vm, 0))
    /\ Quiet

\* BINARY_OP(NUMBER_VAL, *)
OP_MULTIPLY ==
    /\ Dispatch("OP_MULTIPLY")
    /\ LET b == peek(vm, 0)
           a == peek(vm, 1)
       IN vm' = IF ~IS_NUMBER(b) \/ ~IS_NUMBER(a)
                THEN runtime_error(Read(1), "Operands must be numbers.")
                ELSE push(pop(pop(Read(1))), NUMBER_VAL(a.n * b.n))
    /\ Quiet

\* values_equal on the values of the stack; for two objects that are no strings the read
\* through AS_STRING is undefined, and either result is pushed
OP_EQUAL ==
    /\ Dispatch("OP_EQUAL")
    /\ LET b == peek(vm, 0)
           a == peek(vm, 1)
       IN \E r \in IF a.t # b.t THEN {FALSE}
                    ELSE IF a.t = "obj" THEN BOOLEAN
                    ELSE {a = b} :
              vm' = push(pop(pop(Read(1))), BOOL_VAL(r))
    /\ Quiet

OP_NOT ==
    /\ Dispatch("OP_NOT")
    /\ vm' = push(pop(Read(1)), BOOL_VAL(is_falsey(peek(vm, 0))))
    /\ Quiet

OP_NEGATE ==
    /\ Dispatch("OP_NEGATE")
    /\ vm' = IF ~IS_NUMBER(peek(vm, 0))
             THEN runtime_error(Read(1), "Operand must be a number.")
             ELSE push(pop(Read(1)), NUMBER_VAL(0 - peek(vm, 0).n))
    /\ Quiet

\* concatenate for two strings, the sum for two numbers
OP_ADD ==
    /\ Dispatch("OP_ADD")
    /\ LET b == peek(vm, 0)
           a == peek(vm, 1)
       IN vm' = IF IS_STRING(b) /\ IS_STRING(a)
                THEN push(pop(pop(Read(1))), STRING_VAL(a.s \o b.s))
                ELSE IF IS_NUMBER(b) /\ IS_NUMBER(a)
                THEN push(pop(pop(Read(1))), NUMBER_VAL(a.n + b.n))
                ELSE runtime_error(Read(1), "Operands must be two numbers or two strings.")
    /\ Quiet

OP_PRINT ==
    /\ Dispatch("OP_PRINT")
    /\ vm' = pop(Read(1))
    /\ stdout' = Append(stdout, peek(vm, 0))
    /\ UNCHANGED <<gcvars, unitvars, source, junk, compiled>>

OP_JUMP ==
    /\ Dispatch("OP_JUMP")
    /\ vm' = Read(3 + READ_SHORT)
    /\ Quiet

OP_JUMP_IF_FALSE ==
    /\ Dispatch("OP_JUMP_IF_FALSE")
    /\ vm' = IF is_falsey(peek(vm, 0)) THEN Read(3 + READ_SHORT) ELSE Read(3)
    /\ Quiet

OP_LOOP ==
    /\ Dispatch("OP_LOOP")
    /\ vm' = Read(3 - READ_SHORT)
    /\ Quiet

OP_CALL ==
    /\ Dispatch("OP_CALL")
    /\ vm' = call_value(Read(2), peek(vm, READ_BYTE(1)), READ_BYTE(1))
    /\ Quiet

\* the loop of OP_CLOSURE from upvalue i on; the pair of upvalue i is 2 + 2i bytes after the opcode
RECURSIVE captures(_, _, _)
captures(m, closure, i) ==
    LET is_local == READ_BYTE(2 + 2 * i)
        index == READ_BYTE(3 + 2 * i)
        enclosing == vm.objects[frame.closure].upvalues
        c == capture_upvalue(m, frame.slots + index)
    IN IF i >= Len(m.objects[closure].upvalues) THEN m
       ELSE IF is_local # 0
       THEN captures([c EXCEPT !.objects[closure].upvalues[i + 1] = c.ret], closure, i + 1)
       ELSE IF index < Len(enclosing)
       THEN captures([m EXCEPT !.objects[closure].upvalues[i + 1] = enclosing[index + 1]],
                     closure, i + 1)
       ELSE undefined(m)

OP_CLOSURE ==
    /\ Dispatch("OP_CLOSURE")
    /\ LET fn == READ_CONSTANT.f
           upvalue_count == compiled.fns[fn].upvalue_count
           closure == Len(vm.objects) + 1
           m == [Read(2 + 2 * upvalue_count) EXCEPT
                    !.objects = Append(@, ObjClosure(fn, upvalue_count))]
       IN vm' = captures(push(m, OBJ_VAL(closure)), closure, 0)
    /\ Quiet

OP_CLOSE_UPVALUE ==
    /\ Dispatch("OP_CLOSE_UPVALUE")
    /\ vm' = pop(close_upvalues(Read(1), vm.stack_top))
    /\ Quiet

\* OP_RETURN that leaves stack_top behind the callee's slot before it pushes the result
OP_RETURN_above ==
    /\ Dispatch("OP_RETURN")
    /\ LET result == peek(vm, 0)
           m == close_upvalues(pop(Read(1)), frame.slots)
           returned == [m EXCEPT !.frames = SubSeq(@, 1, Len(@) - 1)]
       IN vm' = IF Len(vm.frames) = 1
                THEN [pop(returned) EXCEPT !.status = "INTERPRET_OK"]
                ELSE push([returned EXCEPT !.stack_top = frame.slots], result)
    /\ Quiet

OP_RETURN ==
    /\ Dispatch("OP_RETURN")
    /\ LET result == peek(vm, 0)
           m == close_upvalues(pop(Read(1)), frame.slots)
           returned == [m EXCEPT !.frames = SubSeq(@, 1, Len(@) - 1)]
       IN vm' = IF Len(vm.frames) = 1
                THEN [pop(returned) EXCEPT !.status = "INTERPRET_OK"]
                ELSE push([returned EXCEPT !.stack_top = frame.slots - 1], result)
    /\ Quiet

OP_CLASS ==
    /\ Dispatch("OP_CLASS")
    /\ vm' = push([Read(2) EXCEPT !.objects = Append(@, ObjClass(READ_STRING))],
                  OBJ_VAL(Len(vm.objects) + 1))
    /\ Quiet

OP_METHOD ==
    /\ Dispatch("OP_METHOD")
    /\ vm' = defineMethod(Read(2), READ_STRING)
    /\ Quiet

\* ------------------------------------------------------------------ inputs
MaxFunctions == 3
MaxJunk == 1
MaxJunkIndex == 2

RECURSIVE SeqsUpTo(_, _)
SeqsUpTo(S, n) ==
    IF n = 0 THEN {<<>>}
    ELSE SeqsUpTo(S, n - 1) \cup {Append(s, x) : s \in SeqsUpTo(S, n - 1), x \in S}

\* what the memory under Compiler.upvalues can hold below a nonzero upvalue_count
JunkArrays == SeqsUpTo([is_local : BOOLEAN, index : 0..MaxJunkIndex], MaxJunk)

\* the memory of one ObjFunction holds a nonzero upvalue_count, that of the others zero
Junk == {[k \in 1..MaxFunctions |-> IF k = f THEN a ELSE <<>>] :
            f \in 1..MaxFunctions, a \in JunkArrays}

\* the spec's scenario 3
MakeCounter ==
    <<"fun", "makeCounter", "(", ")", "{", "var", "i", "=", "0", ";",
      "fun", "c", "(", ")", "{", "i", "=", "i", "+", "1", ";", "return", "i", ";", "}",
      "return", "c", ";", "}",
      "var", "c", "=", "makeCounter", "(", ")", ";",
      "print", "c", "(", ")", ";", "print", "c", "(", ")", ";", "print", "c", "(", ")", ";">>

\* a block whose three locals a function captures highest first, then lowest, then
\* the one in between, and a second function that captures one of them again
Block ==
    <<"{", "var", "a", "=", "1", ";", "var", "b", ";", "var", "c", "=", "2", ";",
      "fun", "g", "(", ")", "{", "var", "c", ";", "var", "a", ";", "var", "b", ";",
      "c", "=", "a", "+", "b", ";", "}",
      "fun", "h", "(", ")", "{", "var", "b", ";", "print", "b", ";", "}", "}">>

\* a function called twice whose locals are captured in an inner block and after it
Calls ==
    <<"fun", "f", "(", "x", ")", "{", "var", "a", "=", "1", ";",
      "{", "var", "b", "=", "2", ";",
      "fun", "g", "(", ")", "{", "var", "a", ";", "var", "b", ";", "a", "=", "b", ";", "}", "}",
      "fun", "k", "(", ")", "{", "var", "a", ";", "return", "a", ";", "}",
      "x", "=", "2", ";", "return", "x", ";", "}",
      "print", "f", "(", "1", ")", ";", "f", "(", "2", ")", ";">>

\* globals only; the last statement assigns to a name that is not defined
Globals ==
    <<"var", "x", "=", "1", ";", "x", "=", "x", "+", "2", ";", "print", "x", ";",
      "var", "y", ";", "print", "y", ";", "z", "=", "x", ";", "print", "z", ";">>

\* the spec's scenario 1, and the logical operators with a falsey and a truthy left operand
Arith == <<"print", "1", "+", "2", "*", "3", ";">>
Negated == <<"print", "-", "1", "+", "2", ";">>
\* a call of the native function, with two arguments and a local under it
Native == <<"{", "var", "a", "=", "1", ";", "print", "clock", "(", "2", ",", "3", ")", ";", "}">>
Inverted == <<"print", "!", "nil", "==", "false", ";">>
Both == <<"print", "nil", "and", "1", ";", "print", "2", "and", "3", ";">>
Either == <<"print", "nil", "or", "1", ";", "print", "2", "or", "3", ";">>

\* a program that does not compile
Broken == <<"print", ";", "var", "x", "=", "1", ";">>

\* the spec's scenario 4
Greeter ==
    <<"class", "Greeter", "{",
      "init", "(", "name", ")", "{", "this", ".", "name", "=", "name", ";", "}",
      "hi", "(", ")", "{", "print", "\"hi \"", "+", "this", ".", "name", ";", "}", "}",
      "Greeter", "(", "\"world\"", ")", ".", "hi", "(", ")", ";">>

\* fields and methods of an instance: a field that shadows a method, a method bound and
\* called, a property that is neither
Properties ==
    <<"class", "A", "{", "m", "(", ")", "{", "return", "this", ";", "}", "x", "(", ")", "{", "}", "}",
      "var", "a", "=", "A", "(", ")", ";", "print", "a", ".", "x", ";",
      "a", ".", "x", "=", "2", ";", "print", "a", ".", "x", ";",
      "print", "a", ".", "m", "(", ")", ";", "a", ".", "y", ";">>

\* a class with an initializer, called; then a property of something that is no instance
Initializer ==
    <<"class", "P", "{", "init", "(", ")", "{", "}", "}",
      "print", "P", "(", ")", ";", "P", ".", "z", ";">>

\* if with and without else, while, for with and without its clauses, at top level and
\* in a function
ControlFlow ==
    <<"var", "x", "=", "true", ";",
      "if", "(", "x", ")", "{", "var", "a", "=", "1", ";", "}", "else", "print", "2", ";",
      "if", "(", "nil", ")", "print", "1", ";", "else", "{", "var", "b", ";", "}",
      "if", "(", "x", ")", "print", "0", ";",
      "while", "(", "x", ")", "{", "var", "w", ";", "x", "=", "false", ";", "}",
      "for", "(", "x", "=", "true", ";", "x", ";", "x", "=", "false", ")",
          "{", "var", "c", "=", "1", ";", "print", "c", ";", "}",
      "for", "(", "var", "i", "=", "1", ";", "false", ";", ")", "print", "i", ";",
      "fun", "f", "(", "n", ")", "{", "if", "(", "n", ")", "return", "1", ";",
          "while", "(", "n", ")", "{", "}", "return", "2", ";", "}",
      "f", "(", "true", ")", ";">>

\* the loop without clauses
Forever == <<"var", "x", ";", "for", "(", ";", ";", ")", "{", "var", "y", "=", "x", ";", "}">>

\* a function that calls itself without end
Recurse == <<"fun", "f", "(", ")", "{", "f", "(", ")", ";", "}", "f", "(", ")", ";">>

\* a function with 255 locals, the most add_local accepts, that calls itself with five
\* more values on the stack: the callee and the first four arguments of a call
Vars == [i \in 1..(3 * (UINT8_COUNT - 1)) |->
            IF i % 3 = 1 THEN "var" ELSE IF i % 3 = 2 THEN "a" \o ToString(i) ELSE ";"]
Wide ==
    <<"fun", "f", "(", ")", "{">> \o Vars
       \o <<"nil", "(", "nil", ",", "nil", ",", "nil", ",", "nil", ",", "f", "(", ")", ")", ";",
            "}", "f", "(", ")", ";">>

\* a local read in its own initializer, with a local of the same name around it, and a
\* local function that refers to itself
Shadow == <<"{", "var", "a", "=", "1", ";", "{", "var", "a", "=", "a", ";", "}", "}">>
OwnName ==
    <<"{", "fun", "f", "(", ")", "{", "f", "(", ")", ";", "}",
      "var", "b", "=", "1", ";", "b", ";", "}">>

\* a function that declares n locals
Declares(n) ==
    <<"fun", "f", "(", ")", "{">>
       \o [i \in 1..(3 * n) |->
              IF i % 3 = 1 THEN "var" ELSE IF i % 3 = 2 THEN "a" \o ToString(i) ELSE ";"]
       \o <<"}">>

\* two statements with an error each, and a block that the end of the input leaves open
Twice == <<"print", ";", "print", ";">>
Unclosed == <<"{", "1", "1">>

Sources == {MakeCounter, Block, Calls, Globals, Broken, Garbled, Twice, Unclosed,
            Arith, Negated, Inverted, Native, Both, Either, Shadow, OwnName,
            Greeter, Properties, Initializer, ControlFlow, Forever, Recurse}

InitVM ==
    /\ heap = [o \in ObjIds |-> Unallocated]
    /\ vm_objects = <<>> /\ vm_stack = <<>> /\ vm_frames = <<>> /\ vm_open_upvalues = <<>>
    /\ vm_globals = EmptyTable /\ vm_strings = EmptyTable /\ vm_init_string = NULL
    /\ vm_gray_stack = <<>> /\ current = <<>> /\ gc_pc = "off" /\ ops = <<>> /\ reg = NULL
    /\ stress = FALSE /\ phase = "run" /\ collections = 0 /\ ub = FALSE
    /\ source \in Sources
    /\ junk \in Junk
    /\ compiled = [fns |-> <<>>, errors |-> <<>>, log |-> <<>>, stmts |-> <<>>,
                   trail |-> <<>>, had_error |-> FALSE, most_locals |-> 0]
    /\ vm = init_vm
    /\ stdout = <<>>
    /\ NoScanner /\ NoEqual /\ NoTable

NextVM ==
    \/ interpret
    \/ OP_CONSTANT \/ OP_NIL \/ OP_TRUE \/ OP_FALSE \/ OP_POP
    \/ OP_GET_LOCAL \/ OP_SET_LOCAL
    \/ OP_GET_GLOBAL \/ OP_DEFINE_GLOBAL \/ OP_SET_GLOBAL
    \/ OP_GET_UPVALUE
    \/ OP_GET_PROPERTY \/ OP_SET_PROPERTY
    \/ OP_EQUAL \/ OP_NOT \/ OP_NEGATE \/ OP_ADD \/ OP_MULTIPLY \/ OP_PRINT
    \/ OP_JUMP \/ OP_JUMP_IF_FALSE \/ OP_LOOP
    \/ OP_CALL \/ OP_CLOSURE \/ OP_CLOSE_UPVALUE \/ OP_RETURN
    \/ OP_CLASS \/ OP_METHOD

SpecVM == InitVM /\ [][NextVM]_vars

\* the run of Wide and of the functions with the most locals, with upvalue_count zero in
\* every new function
InitDeep ==
    /\ heap = [o \in ObjIds |-> Unallocated]
    /\ vm_objects = <<>> /\ vm_stack = <<>> /\ vm_frames = <<>> /\ vm_open_upvalues = <<>>
    /\ vm_globals = EmptyTable /\ vm_strings = EmptyTable /\ vm_init_string = NULL
    /\ vm_gray_stack = <<>> /\ current = <<>> /\ gc_pc = "off" /\ ops = <<>> /\ reg = NULL
    /\ stress = FALSE /\ phase = "run" /\ collections = 0 /\ ub = FALSE
    /\ source \in {Wide, Declares(UINT8_COUNT)}
    /\ junk = [k \in 1..MaxFunctions |-> <<>>]
    /\ compiled = [fns |-> <<>>, errors |-> <<>>, log |-> <<>>, stmts |-> <<>>,
                   trail |-> <<>>, had_error |-> FALSE, most_locals |-> 0]
    /\ vm = init_vm
    /\ stdout = <<>>
    /\ NoScanner /\ NoEqual /\ NoTable

NextDeep ==
    \/ interpret
    \/ OP_NIL \/ OP_GET_GLOBAL \/ OP_DEFINE_GLOBAL
    \/ OP_CALL \/ OP_CLOSURE

SpecDeep == InitDeep /\ [][NextDeep]_vars

\* ------------------------------------------------------------------ upvalues
Open == {vm.open_upvalues[k] : k \in DOMAIN vm.open_upvalues}
Closures == {o \in DOMAIN vm.objects : vm.objects[o].type = "closure"}
Captured(c) == {vm.objects[c].upvalues[k] : k \in DOMAIN vm.objects[c].upvalues}

\* C6: the locations of the upvalues on vm.open_upvalues are strictly
\* decreasing from head to tail, so no two open upvalues share a stack slot
C6_OpenUpvaluesDecreasing ==
    /\ \A k \in DOMAIN vm.open_upvalues : vm.objects[vm.open_upvalues[k]].location # NULL
    /\ \A k \in 1..(Len(vm.open_upvalues) - 1) :
          vm.objects[vm.open_upvalues[k]].location
             > vm.objects[vm.open_upvalues[k + 1]].location

\* two closures share one open upvalue while another slot is open as well
C6_Witness ==
    /\ vm.status = "run"
    /\ Len(vm.open_upvalues) >= 2
    /\ \E c1 \in Closures : \E c2 \in Closures \ {c1} :
          Captured(c1) \cap Captured(c2) \cap Open # {}

\* C7: every upvalue on vm.open_upvalues points into the live part of the
\* value stack, stack <= location < stack_top
C7_OpenUpvaluesInStack ==
    \A u \in Open : vm.objects[u].location \in 1..vm.stack_top

\* what close_upvalues(last) has to do in the step from vm to vm'
Closes(last) ==
    LET hit == {u \in Open : vm.objects[u].location >= last}
    IN /\ {vm'.open_upvalues[k] : k \in DOMAIN vm'.open_upvalues} = Open \ hit
       /\ \A u \in hit : /\ vm'.objects[u].location = NULL
                         /\ vm'.objects[u].closed = Slot(vm, vm.objects[u].location)
                         /\ deref(vm', u) = deref(vm, u)
       /\ \A u \in Open \ hit : vm'.objects[u] = vm.objects[u]

\* C8: close_upvalues(last) closes exactly the open upvalues at or above
\* last: each leaves the list, has location == &closed and reads as before
C8_CloseUpvalues ==
    [][/\ Dispatch("OP_CLOSE_UPVALUE") => Closes(vm.stack_top)
       /\ Dispatch("OP_RETURN") => Closes(frame.slots)]_vars

\* an upvalue has been closed with a value in it while a lower one stays open
C8_Witness ==
    /\ vm.status = "run"
    /\ Open # {}
    /\ \E u \in DOMAIN vm.objects :
          /\ vm.objects[u].type = "upvalue"
          /\ vm.objects[u].location = NULL
          /\ vm.objects[u].closed = NUMBER_VAL(2)

\* ------------------------------------------------------------------ variables
Printed(n) == {k \in DOMAIN stdout : stdout[k] = NUMBER_VAL(n)}

\* C9: the spec's makeCounter program runs to INTERPRET_OK and its three
\* calls of the returned closure write 1, 2 and 3 to stdout, in this order
C9_MakeCounterCounts ==
    (source = MakeCounter /\ Finished) =>
        /\ vm.status = "INTERPRET_OK"
        /\ \E i \in Printed(1) : \E j \in Printed(2) : \E k \in Printed(3) : i < j /\ j < k

\* the locals of the function being compiled that a use of a name matches
Matches(use) == {i \in DOMAIN use.locals : use.locals[i].name = use.name}
Innermost(use) == CHOOSE i \in Matches(use) : \A j \in Matches(use) : j <= i

\* C10: a use of a name whose innermost matching local of the function being
\* compiled is initialised emits GET_LOCAL / SET_LOCAL with that local's slot
C10_LocalUseEmitsLocalSlot ==
    \A n \in DOMAIN compiled.log :
        LET use == compiled.log[n]
        IN (Matches(use) # {} /\ use.locals[Innermost(use)].depth # -1) =>
              /\ use.op \in {"OP_GET_LOCAL", "OP_SET_LOCAL"}
              /\ use.arg = Innermost(use) - 1

\* the name of a use is a local of some enclosing function
Enclosed(use) ==
    \E k \in DOMAIN use.enclosing : \E i \in DOMAIN use.enclosing[k] :
        use.enclosing[k][i].name = use.name

\* C11: a use of a name that is no local of the function being compiled emits
\* GET_UPVALUE / SET_UPVALUE when an enclosing function has a local of that
\* name, and GET_GLOBAL / SET_GLOBAL only when no enclosing function has one
C11_EnclosingLocalIsUpvalue ==
    \A n \in DOMAIN compiled.log :
        LET use == compiled.log[n]
        IN Matches(use) = {} =>
              IF Enclosed(use) THEN use.op \in {"OP_GET_UPVALUE", "OP_SET_UPVALUE"}
              ELSE use.op \in {"OP_GET_GLOBAL", "OP_SET_GLOBAL"}

\* ------------------------------------------------------------------ classes
\* C12: inside a method `this` compiles to a read of local slot 0 of the method
C12_ThisIsSlotZero ==
    \A n \in DOMAIN compiled.log :
        compiled.log[n].name = "this" =>
            compiled.log[n].op = "OP_GET_LOCAL" /\ compiled.log[n].arg = 0

\* C13: when the init method that a class call started returns, the call
\* expression has the value the call put in slot 0, the new instance
C13_ClassCallYieldsInstance ==
    [][(Dispatch("OP_RETURN") /\ Len(vm.frames) > 1 /\ chunk.name = init_string) =>
          /\ IS_INSTANCE(vm', peek(vm', 0))
          /\ peek(vm', 0) = Slot(vm, frame.slots)]_vars

\* the stack under the receiver of the instruction being executed
Under == [i \in 1..(vm.stack_top - 1) |-> Slot(vm, i)]

\* C14: GET_PROPERTY replaces an instance on top of the stack by its field of
\* that name if it has one, else by a bound method of that instance and its
\* class's method of that name; anything else is a runtime error
C14_GetProperty ==
    [][Dispatch("OP_GET_PROPERTY") =>
          LET receiver == peek(vm, 0)
              name == READ_STRING
              inst == vm.objects[AS_OBJ(receiver)]
              its_methods == vm.objects[inst.klass].methods
              replaced == /\ vm'.status = "run"
                          /\ vm'.stack_top = vm.stack_top
                          /\ [i \in 1..(vm'.stack_top - 1) |-> Slot(vm', i)] = Under
          IN IF ~IS_INSTANCE(vm, receiver) THEN vm'.status = "INTERPRET_RUNTIME_ERROR"
             ELSE IF name \in Keys(inst.fields)
             THEN replaced /\ peek(vm', 0) = inst.fields.map[name]
             ELSE IF name \in Keys(its_methods)
             THEN /\ replaced
                  /\ IS_OBJ(peek(vm', 0))
                  /\ vm'.objects[AS_OBJ(peek(vm', 0))].type = "bound_method"
                  /\ vm'.objects[AS_OBJ(peek(vm', 0))].receiver = receiver
                  /\ OBJ_VAL(vm'.objects[AS_OBJ(peek(vm', 0))].method) = its_methods.map[name]
             ELSE vm'.status = "INTERPRET_RUNTIME_ERROR"]_vars

\* a run has read a field that shadows a method, has bound a method and has ended at
\* a property that is neither
C14_Witness ==
    /\ vm.status = "INTERPRET_RUNTIME_ERROR"
    /\ vm.stderr = <<"Undefined property '%s'.">>
    /\ \E b \in DOMAIN vm.objects : vm.objects[b].type = "bound_method"
    /\ \E i \in DOMAIN vm.objects :
          /\ vm.objects[i].type = "instance"
          /\ Keys(vm.objects[i].fields) \cap Keys(vm.objects[vm.objects[i].klass].methods) # {}
          /\ \E k \in DOMAIN stdout : stdout[k] \in {vm.objects[i].fields.map[f] :
                                                      f \in Keys(vm.objects[i].fields)}

\* C15: when a program compiled without error and its run ended with INTERPRET_OK, the
\* value stack is empty (stack_top == stack) and frame_count is 0
C15_EmptyStackAtExit ==
    vm.status = "INTERPRET_OK" => vm.stack_top = 0 /\ vm.frames = <<>>

\* a run of ControlFlow (blocks, calls, branches, loops, expression statements) ended
C15_Witness ==
    /\ vm.status = "INTERPRET_OK"
    /\ source = ControlFlow
    /\ compiled.errors = <<>>
    /\ Len(stdout) > 0

\* the run is about to execute the instruction at the recorded point of the code
AtPoint(rec) ==
    /\ vm.status = "run"
    /\ vm.objects[frame.closure].function = rec.function
    /\ frame.ip = rec.offset + 1

\* the record of the start of the statement whose end is compiled.stmts[n]
Opening(n) ==
    LET s == compiled.stmts
        Count(k, kind) == Cardinality({j \in (k + 1)..(n - 1) : s[j].kind = kind})
        Opens(k) == s[k].kind = "start" /\ Count(k, "start") = Count(k, "end")
    IN {k \in 1..(n - 1) : Opens(k) /\ \A j \in (k + 1)..(n - 1) : ~Opens(j)}

\* C16: an if, while or for statement ends at the stack height it started at, whichever
\* branch ran, and every iteration of a loop starts at the same height: at the start and
\* the end of a statement and at the start of an iteration the frame holds its locals in
\* scope and nothing else, and the same locals are in scope at the start and at the end
C16_StatementsKeepHeight ==
    /\ \A n \in DOMAIN compiled.stmts :
          AtPoint(compiled.stmts[n]) =>
             vm.stack_top - frame.slots + 1 = compiled.stmts[n].local_count
    /\ \A n \in DOMAIN compiled.stmts :
          compiled.stmts[n].kind = "end" =>
             /\ Opening(n) # {}
             /\ \A k \in Opening(n) :
                   /\ compiled.stmts[k].function = compiled.stmts[n].function
                   /\ compiled.stmts[k].local_count = compiled.stmts[n].local_count

\* a while or for statement of ControlFlow ends after its body ran
C16_Witness ==
    /\ source = ControlFlow
    /\ \E n \in DOMAIN compiled.stmts :
          compiled.stmts[n].kind = "end" /\ AtPoint(compiled.stmts[n])
    /\ "x" \in Keys(vm.globals)
    /\ vm.globals.map["x"] = BOOL_VAL(FALSE)

\* C19: OP_SET_GLOBAL of a name that is not defined ends the run with a runtime error and
\* leaves the name undefined and every other global as it was; of a defined name it
\* stores the value, which stays on top of the stack.  OP_GET_GLOBAL and OP_SET_GLOBAL of
\* a name that is not defined always fail
C19_SetGlobal ==
    [][/\ Dispatch("OP_SET_GLOBAL") =>
             IF READ_STRING \in Keys(vm.globals)
             THEN /\ vm'.status = "run"
                  /\ vm'.globals.map = [vm.globals.map EXCEPT ![READ_STRING] = peek(vm, 0)]
                  /\ vm'.stack_top = vm.stack_top
                  /\ peek(vm', 0) = peek(vm, 0)
             ELSE /\ vm'.status = "INTERPRET_RUNTIME_ERROR"
                  /\ vm'.globals.map = vm.globals.map
       /\ (Dispatch("OP_GET_GLOBAL") /\ READ_STRING \notin Keys(vm.globals)) =>
             /\ vm'.status = "INTERPRET_RUNTIME_ERROR"
             /\ vm'.globals.map = vm.globals.map]_vars

\* Globals assigned x, failed at `z = x`, and the following line `print z;` failed too
C19_Witness ==
    /\ source = Again
    /\ vm.stderr = <<"Undefined variable '%s'.", "Undefined variable '%s'.">>
    /\ "x" \in Keys(vm.globals)
    /\ vm.globals.map["x"] = NUMBER_VAL(3)
    /\ "z" \notin Keys(vm.globals)

\* C20: the step that reports a runtime error ends the run with INTERPRET_RUNTIME_ERROR,
\* an empty value stack and frame_count 0; no instruction is executed after it; the next
\* interpret call on the same VM starts with the closure of its script alone on the stack
C20_RuntimeError ==
    [][/\ (vm.status = "run" /\ Len(vm'.stderr) > Len(vm.stderr)) =>
             /\ vm'.status = "INTERPRET_RUNTIME_ERROR"
             /\ vm'.stack_top = 0
             /\ vm'.frames = <<>>
       /\ vm.status = "INTERPRET_RUNTIME_ERROR" =>
             /\ vm.stack_top = 0 /\ vm.frames = <<>>
             /\ source' \in Followups
             /\ stdout' = stdout /\ vm'.globals = vm.globals /\ vm'.stderr = vm.stderr
             /\ vm'.status \in {"run", "INTERPRET_COMPILE_ERROR"}
             /\ vm'.status = "run" =>
                   /\ vm'.stack_top = 1
                   /\ vm'.frames = <<[closure |-> AS_OBJ(Slot(vm', 1)), ip |-> 1, slots |-> 1]>>]_vars

\* a run ended with a runtime error and the line that followed ran to its end
C20_Witness ==
    /\ source = Followup
    /\ vm.status = "INTERPRET_OK"
    /\ Len(vm.stderr) = 1
    /\ stdout[Len(stdout)] = NUMBER_VAL(1)

\* C17: frame_count never exceeds FRAMES_MAX; a call of a closure with the right number
\* of arguments pushes a frame while fewer than FRAMES_MAX frames are active, the 64th
\* included, and with FRAMES_MAX active frames it reports "Stack overflow." and pushes none
C17_FramesMax ==
    [][/\ Len(vm.frames) <= FRAMES_MAX /\ Len(vm'.frames) <= FRAMES_MAX
       /\ LET callee == peek(vm, READ_BYTE(1))
          IN (/\ Dispatch("OP_CALL")
              /\ IS_OBJ(callee) /\ vm.objects[AS_OBJ(callee)].type = "closure"
              /\ compiled.fns[vm.objects[AS_OBJ(callee)].function].arity = READ_BYTE(1)) =>
                IF Len(vm.frames) < FRAMES_MAX
                THEN /\ vm'.status = "run"
                     /\ Len(vm'.frames) = Len(vm.frames) + 1
                     /\ vm'.stderr = vm.stderr
                ELSE /\ vm'.status = "INTERPRET_RUNTIME_ERROR"
                     /\ vm'.stderr = Append(vm.stderr, "Stack overflow.")
                     /\ vm'.frames = <<>>]_vars

\* Recurse ran with 64 active frames and its next call was refused
C17_Witness ==
    /\ source = Recurse
    /\ vm.status = "INTERPRET_RUNTIME_ERROR"
    /\ vm.stderr = <<"Stack overflow.">>
    /\ vm.stack.hw = FRAMES_MAX + 1

\* C18: at every point of every run of a compiled program stack_top - stack <= STACK_MAX:
\* no push moves stack_top past the end of vm.stack, whatever the nesting of the calls
\* and the number of locals and temporaries of each
C18_StackWithinBounds == vm.stack_top <= STACK_MAX /\ vm.stack.hw <= STACK_MAX

\* ------------------------------------------------------------------ compile errors
\* the step is a call of interpret whose compile has reported an error
CompileFails == compiled'.errors # compiled.errors

\* C21: a call of interpret whose compile reports an error returns INTERPRET_COMPILE_ERROR
\* and leaves the value stack, the call frames, the globals and stdout as they were; no
\* instruction executes in that status
C21_CompileErrorRunsNothing ==
    [][/\ CompileFails =>
            /\ vm'.status = "INTERPRET_COMPILE_ERROR"
            /\ vm'.stack = vm.stack /\ vm'.stack_top = vm.stack_top
            /\ vm'.frames = vm.frames /\ vm'.globals = vm.globals
            /\ stdout' = stdout
       /\ vm.status = "INTERPRET_COMPILE_ERROR" => source' # source]_vars

\* a line that does not compile has been handed to a VM whose globals hold a variable of
\* an earlier line
C21_Witness ==
    /\ vm.status = "INTERPRET_COMPILE_ERROR" /\ source = Garbled
    /\ Len(compiled.errors) = 2
    /\ \E k \in DOMAIN vm.globals.map : k # "clock"

\* the errors the latest compile has reported and the returns of sync, as positions of its trail
Reports == {k \in DOMAIN compiled.trail : compiled.trail[k].event = "error"}
Syncs == {k \in DOMAIN compiled.trail : compiled.trail[k].event = "sync"}

\* C22: an error puts the compiler in panic mode, and between two errors that one compile
\* reports sync has returned (at a `;`, at a statement keyword or at the end of the input);
\* had_error stays set once it is set, and compile fails exactly when had_error is set
C22_PanicMode ==
    /\ \A i \in Reports : compiled.trail[i].panic_mode
    /\ \A i, j \in Reports : i < j => \E k \in Syncs : i < k /\ k < j
    /\ \A i, j \in DOMAIN compiled.trail :
           i < j /\ compiled.trail[i].had_error =>
               compiled.trail[j].had_error /\ compiled.had_error
    /\ vm.status # "boot" => (vm.status = "INTERPRET_COMPILE_ERROR" <=> compiled.had_error)

\* ------------------------------------------------------------------ scanner
\* scanner.c over a text given as its characters; '\0' ends the text
NUL == ""
MaxText == 4
Alphabet == {" ", "\n", "/", "a", "1", ";"}
Texts == UNION {[1..n -> Alphabet] : n \in 0..MaxText}

init_scanner(text) == [source |-> text, start |-> 1, cur |-> 1, line |-> 1]

\* *scanner.cur and scanner.cur[1]
char_at(s, i) == IF i <= Len(s.source) THEN s.source[i] ELSE NUL
is_at_end(s) == char_at(s, s.cur) = NUL
peek_char(s) == char_at(s, s.cur)
peek_next(s) == IF is_at_end(s) THEN NUL ELSE char_at(s, s.cur + 1)

is_digit(c) == c \in {"0", "1", "2", "3", "4", "5", "6", "7", "8", "9"}
is_alpha(c) ==
    c \in {"a", "b", "c", "d", "e", "f", "g", "h", "i", "j", "k", "l", "m", "n", "o", "p", "q",
           "r", "s", "t", "u", "v", "w", "x", "y", "z", "A", "B", "C", "D", "E", "F", "G", "H",
           "I", "J", "K", "L", "M", "N", "O", "P", "Q", "R", "S", "T", "U", "V", "W", "X", "Y",
           "Z", "_"}

\* advance of the scanner: the state after it; its result is the character it passes
advance_char(s) == [s EXCEPT !.cur = @ + 1]

make_token(s, type) ==
    [type |-> type, lexeme |-> SubSeq(s.source, s.start, s.cur - 1), line |-> s.line]
error_token(s, msg) == [type |-> "TOKEN_ERROR", lexeme |-> msg, line |-> s.line]

\* the while loop of the comment branch of skip_whitespace
RECURSIVE skip_comment(_)
skip_comment(s) ==
    IF peek_char(s) # "\n" /\ ~is_at_end(s) THEN skip_comment(advance_char(s)) ELSE s

\* skip_whitespace: `case '/'` has no break after its if, so once the comment is passed
\* control falls through to `default: return`
RECURSIVE skip_whitespace(_)
skip_whitespace(s) ==
    CASE peek_char(s) \in {" ", "\r", "\t"} -> skip_whitespace(advance_char(s))
      [] peek_char(s) = "\n" -> skip_whitespace(advance_char([s EXCEPT !.line = @ + 1]))
      [] peek_char(s) = "/" -> IF peek_next(s) = "/" THEN skip_comment(s) ELSE s
      [] OTHER -> s

\* the while loops of number and of identifier
RECURSIVE digits(_)
digits(s) == IF is_digit(peek_char(s)) THEN digits(advance_char(s)) ELSE s
RECURSIVE letters(_)
letters(s) ==
    IF is_alpha(peek_char(s)) \/ is_digit(peek_char(s)) THEN letters(advance_char(s)) ELSE s

\* number: the scanner after it; the token is make_token(TOKEN_NUMBER) there
scan_number(s) ==
    With(digits(s), LAMBDA d :
        IF peek_char(d) = "." /\ is_digit(peek_next(d)) THEN digits(advance_char(d)) ELSE d)

check_keyword(s, start, rest, type) ==
    IF s.cur - s.start = start + Len(rest)
       /\ SubSeq(s.source, s.start + start, s.cur - 1) = rest
    THEN type ELSE "TOKEN_IDENTIFIER"

\* identifier_type; the cases of the letters that are not in Alphabet are left out
identifier_type(s) ==
    CASE s.source[s.start] = "a" -> check_keyword(s, 1, <<"n", "d">>, "TOKEN_AND")
      [] OTHER -> "TOKEN_IDENTIFIER"

\* scan_token: the scanner after the call and the token it returns
next_token(s0) ==
    LET w == skip_whitespace(s0)
        s == [w EXCEPT !.start = w.cur]
        c == peek_char(s)
        t == advance_char(s)
    IN IF is_at_end(s) THEN [scanner |-> s, token |-> make_token(s, "TOKEN_EOF")]
       ELSE CASE c = ";" -> [scanner |-> t, token |-> make_token(t, "TOKEN_SEMICOLON")]
              [] c = "/" -> [scanner |-> t, token |-> make_token(t, "TOKEN_SLASH")]
              [] is_alpha(c) ->
                    [scanner |-> letters(t),
                     token |-> make_token(letters(t), identifier_type(letters(t)))]
              [] is_digit(c) ->
                    [scanner |-> scan_number(t),
                     token |-> make_token(scan_number(t), "TOKEN_NUMBER")]
              [] OTHER -> [scanner |-> t, token |-> error_token(t, "Unexpected character.")]

\* the compiler stops calling scan_token at TOKEN_EOF
Scanned == tokens # <<>> /\ tokens[Len(tokens)].type = "TOKEN_EOF"

ScanToken ==
    /\ ~Scanned
    /\ scanner' = next_token(scanner).scanner
    /\ tokens' = Append(tokens, next_token(scanner).token)
    /\ UNCHANGED <<gcvars, vmvars, equal, table, shadow, ret>>

\* the collector and the VM before init_vm, for the specifications that do not run them
AtRest ==
    /\ heap = [o \in ObjIds |-> Unallocated]
    /\ vm_objects = <<>> /\ vm_stack = <<>> /\ vm_frames = <<>> /\ vm_open_upvalues = <<>>
    /\ vm_globals = EmptyTable /\ vm_strings = EmptyTable /\ vm_init_string = NULL
    /\ vm_gray_stack = <<>> /\ current = <<>> /\ gc_pc = "off" /\ ops = <<>> /\ reg = NULL
    /\ stress = FALSE /\ phase = "boot" /\ collections = 0 /\ ub = FALSE
    /\ source = <<>> /\ junk = <<>> /\ compiled = <<>> /\ vm = <<>> /\ stdout = <<>>

InitScan ==
    /\ AtRest
    /\ \E text \in Texts : scanner = init_scanner(text)
    /\ tokens = <<>>
    /\ NoEqual /\ NoTable

NextScan == ScanToken

SpecScan == InitScan /\ [][NextScan]_vars

\* a text without its comments: each `//` that skip_whitespace can meet, and what follows
\* it up to the end of its line, removed; the newline stays
RECURSIVE Uncommented(_)
Uncommented(text) ==
    IF text = <<>> THEN <<>>
    ELSE IF Len(text) >= 2 /\ text[1] = "/" /\ text[2] = "/"
    THEN LET ends == {i \in DOMAIN text : text[i] = "\n"}
         IN IF ends = {} THEN <<>>
            ELSE SubSeq(text, CHOOSE i \in ends : \A j \in ends : i <= j, Len(text))
    ELSE <<text[1]>> \o Uncommented(Tail(text))

\* every token of a text, from a scanner state on
RECURSIVE scan_all(_)
scan_all(s) ==
    With(next_token(s), LAMBDA r :
        IF r.token.type = "TOKEN_EOF" THEN <<r.token>> ELSE <<r.token>> \o scan_all(r.scanner))

\* C23: a `//` comment is skipped like whitespace: the tokens of a text, with their lines,
\* are the tokens of the text without its comments; the comment and the newline that ends
\* it produce no token, the newline is counted, and the token after it is returned
C23_CommentIsWhitespace ==
    Scanned => tokens = scan_all(init_scanner(Uncommented(scanner.source)))

\* ------------------------------------------------------------------ output and operators
\* C24: OP_PRINT is the only instruction that writes to stdout, and what it writes is the
\* value it pops; the run of `print 1 + 2 * 3;` ends with the single line 7 on stdout
C24_OnlyPrintWrites ==
    [][/\ stdout' # stdout => Dispatch("OP_PRINT") /\ stdout' = Append(stdout, peek(vm, 0))
       /\ (source' = Arith /\ vm'.status = "INTERPRET_OK") => stdout' = <<NUMBER_VAL(7)>>]_vars

\* C25: `a and b` and `a or b` compile without error; `nil and 1` is nil and `nil or 1` is 1,
\* `2 and 3` is 3 and `2 or 3` is 2, the right operand is not evaluated when the left one
\* decides, and each expression leaves one value, which its print statement pops
C25_ShortCircuit ==
    (source \in {Both, Either} /\ Finished) =>
        /\ compiled.errors = <<>>
        /\ vm.status = "INTERPRET_OK" /\ vm.stack_top = 0
        /\ source = Both =>
              /\ stdout[1] = NIL_VAL /\ stdout[Len(stdout)] = NUMBER_VAL(3)
              /\ \A k \in DOMAIN stdout : stdout[k] # NUMBER_VAL(1)
        /\ source = Either =>
              /\ stdout[Len(stdout)] = NUMBER_VAL(2)
              /\ \E k \in DOMAIN stdout : stdout[k] = NUMBER_VAL(1)
              /\ \A k \in DOMAIN stdout : stdout[k] # NUMBER_VAL(3)

\* ------------------------------------------------------------------ values_equal
\* the numbers among the values compared
MaxNumber == 1

\* a heap with objects of every type, the strings interned (one object per content)
EqualHeap ==
    <<ObjString("a"), ObjString("b"), ObjFunction, ObjClosure(3, 0), ObjClosure(3, 0),
      ObjNative, ObjClass(1), ObjInstance(7), ObjInstance(7)>>

EqualValues ==
    {NIL_VAL, BOOL_VAL(TRUE), BOOL_VAL(FALSE)} \cup {NUMBER_VAL(n) : n \in 0..MaxNumber}
        \cup {OBJ_VAL(o) : o \in DOMAIN EqualHeap}

\* values_equal: what it can return.  For two VAL_OBJ values it reads ->len and ->chars
\* through AS_STRING whatever the type of the objects; an object that is no ObjString has
\* other fields, or none, at those offsets, so the read is undefined and so is the result
values_equal(h, a, b) ==
    IF a.t # b.t THEN {"false"}
    ELSE CASE a.t = "bool" -> {IF a.b = b.b THEN "true" ELSE "false"}
           [] a.t = "nil" -> {"true"}
           [] a.t = "number" -> {IF a.n = b.n THEN "true" ELSE "false"}
           [] a.t = "obj" ->
                 IF h[a.o].type = "string" /\ h[b.o].type = "string"
                 THEN {IF Len(h[a.o].chars) = Len(h[b.o].chars) /\ h[a.o].chars = h[b.o].chars
                       THEN "true" ELSE "false"}
                 ELSE {"true", "false", "undefined"}

\* OP_EQUAL on the two values: the call of values_equal
Equal ==
    /\ equal.result = "none"
    /\ \E r \in values_equal(EqualHeap, equal.a, equal.b) : equal' = [equal EXCEPT !.result = r]
    /\ UNCHANGED <<gcvars, vmvars, scanner, tokens, table, shadow, ret>>

InitEqual ==
    /\ AtRest
    /\ \E a, b \in EqualValues : equal = [a |-> a, b |-> b, result |-> "none"]
    /\ NoScanner /\ NoTable

NextEqual == Equal

SpecEqual == InitEqual /\ [][NextEqual]_vars

\* two values of the same tag that are both nil, equal booleans, equal numbers or
\* references to the same object
SameValue(a, b) ==
    /\ a.t = b.t
    /\ CASE a.t = "bool" -> a.b = b.b
         [] a.t = "nil" -> TRUE
         [] a.t = "number" -> a.n = b.n
         [] a.t = "obj" -> a.o = b.o

\* C26: values_equal(a, b) is true exactly when a and b have the same tag and are both
\* nil, equal booleans, equal numbers or references to the same object, and false otherwise
C26_ValuesEqual ==
    equal.result # "none" =>
        equal.result = IF SameValue(equal.a, equal.b) THEN "true" ELSE "false"

\* ------------------------------------------------------------------ locals
\* C27: a function that declares 256 locals compiles without error (the error "Too many
\* local variables." is for a 257th declaration), and no Compiler's local_count exceeds 256
C27_LocalsLimit ==
    /\ compiled.most_locals <= UINT8_COUNT
    /\ vm.status # "boot" /\ source = Declares(UINT8_COUNT) => compiled.errors = <<>>

\* the depths of the locals of a Compiler
Depths(locals) == [i \in DOMAIN locals |-> locals[i].depth]
OwnInitializer == "Can't read local variable in its own initializer."

\* C28: a local has depth -1 from its declaration until its initializer is compiled, and a
\* use that resolves to it then is the error "Can't read local variable in its own
\* initializer."; every local defined before has a depth >= 0, the scope depth of its
\* definition; the name of a function is initialised when its body is compiled
C28_OwnInitializer ==
    /\ \A k \in DOMAIN compiled.log :
          LET use == compiled.log[k]
          IN /\ \A i \in 1..(Len(use.locals) - 1) : use.locals[i].depth >= 0
             /\ (Matches(use) # {} /\ use.locals[Innermost(use)].depth = -1) =>
                    \E e \in DOMAIN compiled.errors : compiled.errors[e] = OwnInitializer
    /\ (source = Shadow /\ vm.status # "boot") =>
          /\ compiled.errors = <<OwnInitializer>>
          /\ Depths(compiled.log[1].locals) = <<0, 1, -1>>
    /\ (source = OwnName /\ vm.status # "boot") =>
          /\ compiled.errors = <<>>
          /\ compiled.log[1].name = "f" /\ Depths(compiled.log[1].enclosing[1]) = <<0, 1>>
          /\ compiled.log[2].name = "b" /\ Depths(compiled.log[2].locals) = <<0, 1, 1>>

\* the program that reads a local in its own initializer has been compiled: the use of `a`
\* has resolved to the inner `a`, the third local, and not to the initialised outer one
C28_Witness ==
    /\ source = Shadow /\ vm.status = "INTERPRET_COMPILE_ERROR"
    /\ compiled.log[1].name = "a" /\ Innermost(compiled.log[1]) = 3

\* ------------------------------------------------------------------ table.c on its entries
\* The keys are ObjString pointers 1..MaxKeys; key->hash makes keys collide at a capacity
\* of 8 (0, 0, 1, 1, 1, 2, 2, ...) and at a capacity of 16; the values are true and, for
\* the first NilKeys keys, nil: the values that also mark a tombstone and an empty entry.
\* Six entries in use, tombstones included, make the next table_set grow the table to 16
MaxKeys == 6
NilKeys == 1
TableKeys == 1..MaxKeys
Hash(key) == (key % 3) * 8 + (key \div 3)
TableValues(key) == IF key <= NilKeys THEN {NIL_VAL, BOOL_VAL(TRUE)} ELSE {BOOL_VAL(TRUE)}

init_table == [len |-> 0, cap |-> 0, entries |-> <<>>]

\* the for loop of find_entry, at entries[index]; tombstone is -1 for NULL and the result
\* is the index of the entry returned
RECURSIVE probe(_, _, _, _, _)
probe(entries, capacity, key, index, tombstone) ==
    LET entry == entries[index + 1]
    IN IF entry.key = key THEN index
       ELSE IF entry.key = NULL /\ entry.value = NIL_VAL
       THEN (IF tombstone # -1 THEN tombstone ELSE index)
       ELSE probe(entries, capacity, key, (index + 1) % capacity,
                  IF entry.key = NULL /\ tombstone = -1 THEN index ELSE tombstone)

\* find_entry that returns the first entry without a key, tombstone or not
find_entry_first(entries, capacity, key) ==
    LET hit(i) == entries[((Hash(key) + i) % capacity) + 1].key \in {key, NULL}
    IN (Hash(key) + CHOOSE i \in 0..(capacity - 1) : hit(i) /\ \A j \in 0..(i - 1) : ~hit(j))
           % capacity

find_entry(entries, capacity, key) == probe(entries, capacity, key, Hash(key) % capacity, -1)

\* table_get: its result and *value (nil when it is not written)
table_get(t, key) ==
    IF t.len = 0 THEN [found |-> FALSE, value |-> NIL_VAL]
    ELSE LET entry == t.entries[find_entry(t.entries, t.cap, key) + 1]
         IN IF entry.key = NULL THEN [found |-> FALSE, value |-> NIL_VAL]
            ELSE [found |-> TRUE, value |-> entry.value]

\* the second loop of adjust_capacity, from entries[i - 1] of the old array
RECURSIVE rehash(_, _, _, _)
rehash(old, i, new_entries, capacity) ==
    IF i > Len(old) THEN new_entries
    ELSE IF old[i].key = NULL THEN rehash(old, i + 1, new_entries, capacity)
    ELSE rehash(old, i + 1,
                [new_entries EXCEPT ![find_entry(new_entries, capacity, old[i].key) + 1] = old[i]],
                capacity)

\* adjust_capacity on the entries: len is counted again, one for each key copied
adjust_entries(t, capacity) ==
    [len |-> Cardinality({i \in DOMAIN t.entries : t.entries[i].key # NULL}),
     cap |-> capacity,
     entries |-> rehash(t.entries, 1,
                        [i \in 1..capacity |-> [key |-> NULL, value |-> NIL_VAL]], capacity)]

\* table_set on the entries: the table after it and its result
set_entry(t, key, value) ==
    LET g == IF table_needs_growth(t) THEN adjust_entries(t, GROW_CAPACITY(t.cap)) ELSE t
        i == find_entry(g.entries, g.cap, key) + 1
        is_new_key == g.entries[i].key = NULL
    IN [table |-> [g EXCEPT !.len = IF is_new_key /\ g.entries[i].value = NIL_VAL
                                    THEN @ + 1 ELSE @,
                            !.entries[i] = [key |-> key, value |-> value]],
        result |-> is_new_key]

\* table_delete on the entries: the table after it and its result
delete_entry(t, key) ==
    IF t.len = 0 THEN [table |-> t, result |-> FALSE]
    ELSE LET i == find_entry(t.entries, t.cap, key) + 1
         IN IF t.entries[i].key = NULL THEN [table |-> t, result |-> FALSE]
            ELSE [table |-> [t EXCEPT !.entries[i] = [key |-> NULL, value |-> BOOL_VAL(TRUE)]],
                  result |-> TRUE]

TableSetCall ==
    \E key \in TableKeys : \E value \in TableValues(key) :
        /\ table' = set_entry(table, key, value).table
        /\ shadow' = [k \in DOMAIN shadow \cup {key} |-> IF k = key THEN value ELSE shadow[k]]
        /\ ret' = [result |-> set_entry(table, key, value).result, value |-> NIL_VAL]
        /\ UNCHANGED <<gcvars, vmvars, scanner, tokens, equal>>

TableDeleteCall ==
    \E key \in TableKeys :
        /\ table' = delete_entry(table, key).table
        /\ shadow' = [k \in DOMAIN shadow \ {key} |-> shadow[k]]
        /\ ret' = [result |-> delete_entry(table, key).result, value |-> NIL_VAL]
        /\ UNCHANGED <<gcvars, vmvars, scanner, tokens, equal>>

TableGetCall ==
    \E key \in TableKeys :
        /\ ret' = [result |-> table_get(table, key).found, value |-> table_get(table, key).value]
        /\ UNCHANGED <<gcvars, vmvars, scanner, tokens, equal, table, shadow>>

InitTable ==
    /\ AtRest
    /\ table = init_table
    /\ shadow = [k \in {} |-> NIL_VAL]
    /\ ret = [result |-> FALSE, value |-> NIL_VAL]
    /\ NoScanner /\ NoEqual

NextTable == TableSetCall \/ TableDeleteCall \/ TableGetCall

SpecTable == InitTable /\ [][NextTable]_vars

\* the keys the table holds, and its tombstones
LiveEntries == {i \in DOMAIN table.entries : table.entries[i].key # NULL}
Tombstones ==
    {i \in DOMAIN table.entries :
        table.entries[i].key = NULL /\ table.entries[i].value # NIL_VAL}

\* what a map answers for a key: found and the value, or not found
Lookup(map, key) ==
    IF key \in DOMAIN map THEN [found |-> TRUE, value |-> map[key]]
    ELSE [found |-> FALSE, value |-> NIL_VAL]

\* C29: after every sequence of calls the table is the map the calls describe: table_get(k)
\* succeeds exactly for the keys set and not deleted since, with the value set last;
\* table_delete of one key changes the result of table_get for no other key; table_set
\* returns true exactly when its key is not present
C29_TableIsMap ==
    \A k \in TableKeys :
        /\ table_get(table, k) = Lookup(shadow, k)
        /\ LET deleted == delete_entry(table, k).table
           IN  \A other \in TableKeys \ {k} : table_get(deleted, other) = table_get(table, other)
        /\ \A v \in TableValues(k) : set_entry(table, k, v).result = (k \notin DOMAIN shadow)

\* the table has grown to 16 entries, and table_get has just found a key whose entry
\* lies behind a tombstone in the chain it is probed along
C29_Witness ==
    /\ table.cap = 2 * TABLE_MIN_CAP /\ ret.result
    /\ \E i \in Tombstones : \E k \in DOMAIN shadow :
          /\ i - 1 = Hash(k) % table.cap /\ table.entries[(i % table.cap) + 1].key = k
          /\ ret = [result |-> TRUE, value |-> shadow[k]]
          /\ table_get(table, k).found

\* C30: tombstones are not counted in len: len is the number of keys that are set and
\* not deleted
C30_LenIsLiveKeys == table.len = Cardinality(DOMAIN shadow)

\* ------------------------------------------------------------------ the load of a table
\* table_set and table_delete with the value true on MaxLoadKeys keys, one key more than
\* three quarters of the least capacity
MaxLoadKeys == 7
LoadKeys == 1..MaxLoadKeys

LoadSetCall ==
    \E key \in LoadKeys :
        /\ table' = set_entry(table, key, BOOL_VAL(TRUE)).table
        /\ shadow' = [k \in DOMAIN shadow \cup {key} |-> BOOL_VAL(TRUE)]
        /\ ret' = [result |-> set_entry(table, key, BOOL_VAL(TRUE)).result, value |-> NIL_VAL]
        /\ UNCHANGED <<gcvars, vmvars, scanner, tokens, equal>>

LoadDeleteCall ==
    \E key \in LoadKeys :
        /\ table' = delete_entry(table, key).table
        /\ shadow' = [k \in DOMAIN shadow \ {key} |-> shadow[k]]
        /\ ret' = [result |-> delete_entry(table, key).result, value |-> NIL_VAL]
        /\ UNCHANGED <<gcvars, vmvars, scanner, tokens, equal>>

NextLoad == LoadSetCall \/ LoadDeleteCall

SpecLoad == InitTable /\ [][NextLoad]_vars

\* the number of entries the loop of find_entry looks at for a key, from hash % capacity
\* until the key or a truly empty entry; capacity + 1 when it has seen every entry in vain
RECURSIVE find_entry_probes(_, _, _, _, _)
find_entry_probes(entries, capacity, key, index, n) ==
    IF n > capacity THEN n
    ELSE LET entry == entries[index + 1]
         IN IF entry.key = key THEN n
            ELSE IF entry.key = NULL /\ entry.value = NIL_VAL THEN n
            ELSE find_entry_probes(entries, capacity, key, (index + 1) % capacity, n + 1)

\* the same for table_find_string, which looks for the interned string with the characters
\* and the hash of key
RECURSIVE find_string_probes(_, _, _, _)
find_string_probes(t, key, index, n) ==
    IF n > t.cap THEN n
    ELSE LET entry == t.entries[index + 1]
         IN IF entry.key = NULL /\ entry.value = NIL_VAL THEN n
            ELSE IF entry.key # NULL /\ entry.key = key THEN n
            ELSE find_string_probes(t, key, (index + 1) % t.cap, n + 1)

\* a capacity that doubling from the least capacity reaches
RECURSIVE Doubled(_)
Doubled(capacity) ==
    \/ capacity = TABLE_MIN_CAP
    \/ capacity > TABLE_MIN_CAP /\ capacity % 2 = 0 /\ Doubled(capacity \div 2)

TrulyEmpty == {i \in DOMAIN table.entries : table.entries[i] = [key |-> NULL, value |-> NIL_VAL]}

\* C31: the entries in use, keys and tombstones, are at most three quarters of the capacity,
\* which is 0 or doubled from 8; a table with entries has a truly empty one, and the loops
\* of find_entry and table_find_string end for every key within capacity probes
C31_LoadFactor ==
    /\ 4 * (Cardinality(LiveEntries) + Cardinality(Tombstones)) <= 3 * table.cap
    /\ table.cap = 0 \/ Doubled(table.cap)
    /\ Len(table.entries) = table.cap
    /\ table.cap > 0 =>
          /\ TrulyEmpty # {}
          /\ \A key \in LoadKeys :
                /\ find_entry_probes(table.entries, table.cap, key, Hash(key) % table.cap, 1)
                      <= table.cap
                /\ find_string_probes(table, key, Hash(key) % table.cap, 1) <= table.cap

\* six entries of eight are in use, one of them a tombstone, and the loop of find_entry
\* passes them all for a key the table does not hold
C31_Witness ==
    /\ table.cap = TABLE_MIN_CAP /\ 4 * table.len = 3 * table.cap /\ Tombstones # {}
    /\ \E key \in LoadKeys \ DOMAIN shadow :
          find_entry_probes(table.entries, table.cap, key, Hash(key) % table.cap, 1) >= 6

\* ------------------------------------------------------------------ unary operators
\* the code of the script of the latest compile
Script == compiled.fns[Len(compiled.fns)].code

\* C32: a unary operator binds tighter than every binary operator: `-1 + 2` compiles to
\* 1, NEGATE, 2, ADD and prints 1, and `!nil == false` to nil, NOT, false, EQUAL and prints
\* false
C32_UnaryBindsTighter ==
    /\ (source = Negated /\ Finished) =>
          /\ vm.status = "INTERPRET_OK"
          /\ Script[1] = "OP_CONSTANT" /\ Script[3] = "OP_NEGATE"
          /\ Script[4] = "OP_CONSTANT" /\ Script[6] = "OP_ADD" /\ Script[7] = "OP_PRINT"
          /\ stdout[Len(stdout)] = NUMBER_VAL(1)
    /\ (source = Inverted /\ Finished) =>
          /\ vm.status = "INTERPRET_OK"
          /\ SubSeq(Script, 1, 5) = <<"OP_NIL", "OP_NOT", "OP_FALSE", "OP_EQUAL", "OP_PRINT">>
          /\ stdout[Len(stdout)] = BOOL_VAL(FALSE)

\* ------------------------------------------------------------------ jump operands
\* A chunk with one jump: the compiler's emit_jump, a body of n bytes and patch_jump, as
\* if_statement and while_statement call them, or a body of n bytes and emit_loop; then the
\* VM runs the jump instruction.  The bodies are short, around one byte's range and around
\* the limit of two bytes
MaxBody == 12
Bodies ==
    (0..MaxBody) \cup ((UINT8_COUNT - 5)..(UINT8_COUNT + 1))
       \cup ((UINT16_MAX - 5)..(UINT16_MAX + 1))

\* the parser at the start of a script, before its first token
chunk_parser ==
    init_compiler([toks |-> <<>>, pos |-> 1, prev |-> Token(""), cur |-> Token(""),
                   had_error |-> FALSE, panic_mode |-> FALSE, errors |-> <<>>,
                   trail |-> <<>>, most_locals |-> 0,
                   current |-> <<>>, current_class |-> 0, fns |-> <<>>, junk |-> <<>>,
                   log |-> <<>>, stmts |-> <<>>, ret |-> NULL],
                  "TYPE_SCRIPT")

\* n bytes of code, standing for the statements a jump passes
body(p, n) == [p EXCEPT !.fns[Cur(p).function].code = @ \o [i \in 1..n |-> "OP_NIL"]]

\* interpret after compile, with the frame at offset ip - 1 of the script and the value
\* of a condition on the stack
run_at(p, ip, value) ==
    /\ compiled' = [fns |-> p.fns, errors |-> p.errors, log |-> p.log,
                    stmts |-> p.stmts, trail |-> p.trail, had_error |-> p.had_error,
                    most_locals |-> p.most_locals]
    /\ vm' = IF p.had_error THEN [vm EXCEPT !.status = "INTERPRET_COMPILE_ERROR"]
             ELSE [push(push([vm EXCEPT !.objects = Append(@, ObjClosure(p.ret, 0))],
                             OBJ_VAL(Len(vm.objects) + 1)),
                        value)
                     EXCEPT !.frames = Append(@, [closure |-> Len(vm.objects) + 1, ip |-> ip,
                                                  slots |-> vm.stack_top + 1]),
                            !.status = "run"]
    /\ UNCHANGED <<gcvars, unitvars, source, junk, stdout>>

\* a forward jump over a body; p.stmts records the end of the code when it is patched
JumpCompile ==
    /\ vm.status = "boot"
    /\ \E instruction \in {"OP_JUMP", "OP_JUMP_IF_FALSE"}, n \in Bodies,
          value \in {NIL_VAL, BOOL_VAL(TRUE)} :
          With(emit_jump(chunk_parser, instruction), LAMBDA j :
              With(end_compiler(patch_jump(at(body(j, n), "patch"), j.ret)), LAMBDA q :
                  run_at(q, 1, value)))

\* a loop of a body; p.stmts records loop_start
LoopCompile ==
    /\ vm.status = "boot"
    /\ \E before \in 0..1, n \in Bodies :
          With(at(body(chunk_parser, before), "loop"), LAMBDA s :
              With(end_compiler(emit_loop(body(s, n), Len(CurFn(s).code))), LAMBDA q :
                  run_at(q, before + n + 1, NIL_VAL)))

InitJump ==
    /\ heap = [o \in ObjIds |-> Unallocated]
    /\ vm_objects = <<>> /\ vm_stack = <<>> /\ vm_frames = <<>> /\ vm_open_upvalues = <<>>
    /\ vm_globals = EmptyTable /\ vm_strings = EmptyTable /\ vm_init_string = NULL
    /\ vm_gray_stack = <<>> /\ current = <<>> /\ gc_pc = "off" /\ ops = <<>> /\ reg = NULL
    /\ stress = FALSE /\ phase = "run" /\ collections = 0 /\ ub = FALSE
    /\ source = <<>>
    /\ junk = <<>>
    /\ compiled = [fns |-> <<>>, errors |-> <<>>, log |-> <<>>, stmts |-> <<>>,
                   trail |-> <<>>, had_error |-> FALSE, most_locals |-> 0]
    /\ vm = init_vm
    /\ stdout = <<>>
    /\ NoScanner /\ NoEqual /\ NoTable

NextJump == JumpCompile \/ LoopCompile \/ OP_JUMP \/ OP_JUMP_IF_FALSE \/ OP_LOOP

SpecJump == InitJump /\ [][NextJump]_vars

\* the offset the compiler meant, and the distance to it from the end of the instruction
JumpTarget == compiled.stmts[1].offset
JumpDistance ==
    IF compiled.stmts[1].kind = "loop" THEN Len(Script) - 2 - JumpTarget ELSE JumpTarget - 3

\* C33: a taken OP_JUMP or OP_JUMP_IF_FALSE sets ip to the offset that was the end of the
\* code when patch_jump patched it, an OP_LOOP sets ip to the loop_start given to
\* emit_loop, and a distance above 65535 is a compile error
C33_JumpsAgree ==
    [][/\ vm.status = "boot" =>
             /\ vm'.status = "INTERPRET_COMPILE_ERROR" <=> JumpDistance' > UINT16_MAX
             /\ vm'.status # "INTERPRET_COMPILE_ERROR" => vm'.status = "run"
             /\ vm'.status = "INTERPRET_COMPILE_ERROR" =>
                   compiled'.errors \in {<<"Too much code to jump over.">>,
                                         <<"Loop body too large.">>}
       /\ vm.status = "run" =>
             /\ vm'.status = "run"
             /\ vm'.frames[1].ip - 1 =
                   IF Dispatch("OP_JUMP_IF_FALSE") /\ ~is_falsey(peek(vm, 0)) THEN 3
                   ELSE JumpTarget]_vars

\* a taken jump over 65535 bytes, the longest, has set ip
C33_Witness ==
    /\ vm.status = "run" /\ JumpDistance = UINT16_MAX /\ Script[1] = "OP_JUMP_IF_FALSE"
    /\ vm.frames[1].ip = JumpTarget + 1

\* ------------------------------------------------------------------ calls
\* the stack below slot i
Below(m, i) == [j \in 1..(i - 1) |-> Slot(m, j)]

\* C34: a call leaves one result in the place of the callee and its arguments and the
\* slots below the callee as they were: OP_CALL makes the callee's slot the first of the
\* new frame, or, for a native and for a class without init and without arguments,
\* replaces callee and arguments by the result at once; no step moves the slots of a
\* frame; OP_RETURN of a called frame puts its result in the frame's first slot and makes
\* it the top of the stack
C34_CallEffect ==
    [][/\ \A k \in DOMAIN vm.frames \cap DOMAIN vm'.frames :
             vm'.frames[k].slots = vm.frames[k].slots
       /\ (Dispatch("OP_CALL") /\ vm'.status = "run") =>
             LET arg_count == READ_BYTE(1)
                 callee == vm.stack_top - arg_count
             IN /\ Below(vm', callee) = Below(vm, callee)
                /\ IF Len(vm'.frames) > Len(vm.frames)
                   THEN /\ vm'.frames[Len(vm'.frames)].slots = callee
                        /\ vm'.stack_top = vm.stack_top
                        /\ Len(vm'.frames) = Len(vm.frames) + 1
                   ELSE /\ vm'.stack_top = callee
                        /\ vm.objects[AS_OBJ(Slot(vm, callee))].type \in {"native", "class"}
                        /\ vm.objects[AS_OBJ(Slot(vm, callee))].type = "class" =>
                              /\ arg_count = 0
                              /\ vm'.objects[AS_OBJ(Slot(vm', callee))].type = "instance"
       /\ (Dispatch("OP_RETURN") /\ Len(vm.frames) > 1) =>
             /\ vm'.status = "run"
             /\ vm'.frames = SubSeq(vm.frames, 1, Len(vm.frames) - 1)
             /\ vm'.stack_top = frame.slots
             /\ Slot(vm', frame.slots) = peek(vm, 0)
             /\ Below(vm', frame.slots) = Below(vm, frame.slots)]_vars

\* a native called with two arguments above a local has returned: its result lies on
\* the local, in the callee's slot
C34_Witness ==
    /\ source = Native /\ vm.status = "run" /\ READ_BYTE(0) = "OP_PRINT"
    /\ vm.stack_top = 3 /\ Slot(vm, 2) = NUMBER_VAL(1) /\ Slot(vm, 3) = NUMBER_VAL(0)


\* ======================================================================
\* SpecMark: two collections over the object graphs of a program with a
\* class, a method closure, a closed upvalue, an instance and a bound method
\* ======================================================================
\* the values on the stack and the upvalues of the closure, at most
MaxRoots == 1
MaxCaptured == 2

\* the objects of the graph, in the order of their allocation
MarkTypes == <<"string", "function", "upvalue", "closure", "class", "instance", "bound_method">>
MarkObj(type) == CHOOSE o \in DOMAIN MarkTypes : MarkTypes[o] = type
MarkString == MarkObj("string")
MarkFunction == MarkObj("function")
MarkUpvalue == MarkObj("upvalue")
MarkClosure == MarkObj("closure")
MarkClass == MarkObj("class")
MarkInstance == MarkObj("instance")
MarkBound == MarkObj("bound_method")

OneEntry(key, value) == [map |-> [k \in {key} |-> value], len |-> 1, cap |-> TABLE_MIN_CAP]

\* what a field, a closed upvalue or a stack slot holds
MarkValues == {OBJ_VAL(MarkClosure), OBJ_VAL(MarkInstance), OBJ_VAL(MarkBound), OBJ_VAL(MarkClass)}

MarkStacks == UNION {[1..n -> MarkValues] : n \in 0..MaxRoots}

MarkGraph(closed, captured, klass_methods, fields, fresh) ==
    [o \in ObjIds |->
        LET x == CASE o = MarkString -> ObjString(<<"init">>)
                   [] o = MarkFunction ->
                        [ObjFunction EXCEPT !.name = MarkString,
                                            !.constants = <<OBJ_VAL(MarkString)>>]
                   [] o = MarkUpvalue -> [ObjUpvalue(0) EXCEPT !.closed = closed]
                   [] o = MarkClosure ->
                        [ObjClosure(MarkFunction, captured) EXCEPT
                            !.upvalues = [i \in 1..captured |-> MarkUpvalue]]
                   [] o = MarkClass -> [ObjClass(MarkString) EXCEPT !.methods = klass_methods]
                   [] o = MarkInstance -> [ObjInstance(MarkClass) EXCEPT !.fields = fields]
                   [] o = MarkBound -> ObjBoundMethod(OBJ_VAL(MarkInstance), MarkClosure)
                   [] OTHER -> Unallocated
        IN [x EXCEPT !.uninit = (o \in fresh)]]

InitGraph ==
    /\ \E closed \in {NIL_VAL, OBJ_VAL(MarkInstance), OBJ_VAL(MarkClosure)} :
       \E captured \in 0..MaxCaptured :
       \E klass_methods \in {EmptyTable, OneEntry(MarkString, OBJ_VAL(MarkClosure))} :
       \E fields \in {EmptyTable, OneEntry(MarkString, OBJ_VAL(MarkInstance)),
                      OneEntry(MarkString, OBJ_VAL(MarkBound))} :
       \E fresh \in {{}, {MarkUpvalue, MarkInstance, MarkBound}} :
          heap = MarkGraph(closed, captured, klass_methods, fields, fresh)
    /\ vm_objects = <<MarkBound, MarkInstance, MarkClass, MarkClosure, MarkUpvalue,
                      MarkFunction, MarkString>>
    /\ vm_stack \in MarkStacks
    /\ vm_frames = <<>>
    /\ vm_open_upvalues = <<>>
    /\ vm_globals = EmptyTable
    /\ vm_strings = OneEntry(MarkString, NIL_VAL)
    /\ vm_init_string = MarkString
    /\ vm_gray_stack = <<>>
    /\ current = <<>>
    /\ gc_pc = "off"
    /\ phase = "run"
    /\ reg = NULL
    /\ collections = 0
    /\ ub = FALSE
    /\ source = <<>> /\ junk = <<>> /\ compiled = <<>> /\ vm = <<>> /\ stdout = <<>>
    /\ NoScanner /\ NoEqual /\ NoTable
    /\ ops = <<Realloc, Realloc>>

\* the build with DEBUG_STRESS_GC
InitMark == stress = TRUE /\ InitGraph

NextMark ==
    \/ ReallocStress \/ MarkRoots \/ BlackenObject \/ TableRemoveWhite \/ Sweep
    \/ ReallocReturn

\* the program goes on running: a step that can be taken is taken
SpecMark == InitMark /\ [][NextMark]_vars /\ WF_vars(NextMark)

\* what one iteration of trace_references pushed
Pushed == SubSeq(vm_gray_stack', Len(vm_gray_stack), Len(vm_gray_stack'))

\* C35: the mark phase terminates on every object graph, cyclic ones included:
\* the gray stack never holds an object twice, an object is pushed only while it
\* is unmarked and is marked from then on until the sweep, so that no object is
\* pushed twice within one collection; trace_references ends with the gray stack
\* empty; and every collection that starts reaches its sweep
C35_MarkTerminates ==
    /\ [](/\ \A i \in DOMAIN vm_gray_stack : \A j \in DOMAIN vm_gray_stack :
                vm_gray_stack[i] = vm_gray_stack[j] => i = j
          /\ \A o \in Range(vm_gray_stack) : heap[o].is_marked
          /\ gc_pc \in {"sweep", "off"} => vm_gray_stack = <<>>)
    /\ [][/\ (gc_pc = "trace_references" /\ gc_pc' = "trace_references") =>
                /\ vm_gray_stack' =
                      SubSeq(vm_gray_stack, 1, Len(vm_gray_stack) - 1) \o Pushed
                /\ \A o \in Range(Pushed) : ~heap[o].is_marked /\ heap'[o].is_marked
                /\ \A o \in ObjIds : heap[o].is_marked => heap'[o].is_marked
                /\ vm_gray_stack[Len(vm_gray_stack)] \notin Range(vm_gray_stack')
          /\ (gc_pc = "trace_references" /\ gc_pc' = "sweep") =>
                vm_gray_stack = <<>> /\ heap' = heap]_vars
    /\ (gc_pc = "mark_roots") ~> (gc_pc = "sweep" \/ ub)

\* the second collection has marked the whole cycle: the class's method, the
\* closure's upvalue, the instance it closed over, the instance's bound method
C35_Witness ==
    /\ gc_pc = "sweep" /\ Len(ops) = 1 /\ ~ub
    /\ heap[MarkUpvalue].closed = OBJ_VAL(MarkInstance)
    /\ heap[MarkClosure].upvalues = <<MarkUpvalue, MarkUpvalue>>
    /\ Keys(heap[MarkClass].methods) # {}
    /\ Keys(heap[MarkInstance].fields) # {}
    /\ heap[MarkInstance].fields.map[MarkString] = OBJ_VAL(MarkBound)
    /\ vm_stack = <<OBJ_VAL(MarkClosure)>>
    /\ \A o \in 1..MarkBound : heap[o].is_marked


\* SpecCollect: the same graphs and calls of reallocate, in either build
InitCollect == stress \in BOOLEAN /\ InitGraph

NextCollect == NextMark \/ ReallocThreshold

SpecCollect == InitCollect /\ [][NextCollect]_vars

\* C36: collect_garbage is entered only by a call of reallocate that grows a
\* block, and only while no collection is in progress; between its entry and the
\* end of its sweep no allocation is requested and it is not entered again
C36_NoReentry ==
    [][/\ gc_pc' = "mark_roots" =>
             /\ gc_pc \in {"off", "mark_roots"}
             /\ gc_pc = "off" =>
                   /\ ops # <<>> /\ Head(ops) = Realloc
                   /\ ops' = <<[Realloc EXCEPT !.st = "alloc"]>> \o Tail(ops)
       /\ gc_pc # "off" =>
             /\ ops' = ops
             /\ Head(ops).op = "realloc" /\ Head(ops).st = "alloc"
             /\ <<gc_pc, gc_pc'>> \in {<<"mark_roots", "trace_references">>,
                                       <<"trace_references", "trace_references">>,
                                       <<"trace_references", "sweep">>,
                                       <<"sweep", "off">>}]_vars

\* a sweep that frees an object, in the build that collects when
\* bytes_allocated exceeds next_gc
C36_Witness ==
    /\ gc_pc = "sweep" /\ ~stress /\ collections = MaxCollections
    /\ sweep_freed(heap, vm_objects) # {}
    /\ vm_gray_stack = <<>>


\* C37: a collection inside an operation frees no object the operation still
\* uses: the string allocate_string is inserting into vm.strings when the table
\* grows, and the value write_value_array is appending when the array grows
C37_OperandsSurvive ==
    \A i \in DOMAIN ops :
        /\ (ops[i].op = "adjust_capacity" /\ ops[i].table = "strings") =>
              ops[i].key \notin Freed
        /\ ops[i].op = "write_value_array" => AS_OBJ(ops[i].value) \notin Freed


\* the upvalues that the closures of the VM refer to
ClosureUpvalues(m) ==
    UNION {Range(m.objects[c].upvalues) \ {NULL} :
              c \in {o \in DOMAIN m.objects : m.objects[o].type = "closure"}}

\* C38: in a run whose functions start with upvalue_count zero, every upvalue a
\* closure refers to is closed, or is in vm.open_upvalues and points at a slot
\* below stack_top; also when interpret has returned with a runtime error
C38_UpvaluesSound ==
    (\A k \in DOMAIN junk : junk[k] = <<>>) =>
        \A u \in ClosureUpvalues(vm) :
            \/ vm.objects[u].location = NULL
            \/ /\ u \in Range(vm.open_upvalues)
               /\ vm.objects[u].location <= vm.stack_top

====
